---- MODULE Spec2Model ----
(***************************************************************************)
(* The index store of kernel/sql (database.go): the eight tables of the    *)
(* primary store, the mutating operations that run inside one transaction, *)
(* statement execution with its corruption path, and reference extraction. *)
(***************************************************************************)
EXTENDS Integers, Sequences, FiniteSets, TLC

VARIABLES
    db,             \* committed content of the primary store: table name -> set of rows
    caseSensitive,  \* var caseSensitive bool
    dbOpen,         \* nil != db and the pool is open
    files,          \* which of util.DBPath, DBPath-shm, DBPath-wal exist
    dbVer,          \* the version persisted in table stat ("" when there is none)
    proc,           \* "running" | "exited"
    exitCode,       \* the code the process exited with
    last,           \* what the last operation was and did
    walk,           \* refsFromTree: the nodes of the tree in the order ast.Walk leaves them
    pos,            \* refsFromTree: how many nodes the walk has left
    refs,           \* refsFromTree: refs so far
    fileAnnotationRefs, \* refsFromTree: fileAnnotationRefs so far
    cache,          \* the in-process read cache: the block rows it holds
    pending,        \* the transaction that is open and not yet committed, if any
    historyDB,      \* the history store: its pool, its file, its table
    assetContentDB, \* the asset-content store: its pool, its file, its table
    gc,             \* the stores whose handles a forced runtime.GC released since they were closed
    locks,          \* initDatabaseLock, initHistoryDatabaseLock, initAssetContentDatabaseLock
    pc,             \* where each caller of an initialization stands
    call,           \* a call of a function of this file on its own: its input and its result
    nodes,          \* fromTree: the nodes of the document, in the order ast.Walk enters them
    gen,            \* how many times the document has been extracted
    out,            \* fromTree: the blocks, spans, assets and attributes it returned
    queue,          \* the documents that wait to be indexed
    blockTrees,     \* the block-location index: where each indexed block is
    children,       \* Wnd.children of the window of the tab bar: its tabs, in the model's order
    tabBar,         \* the head elements of the tabs, in the order of the tab bar
    pinned,         \* the tabs whose head element carries the class item--pin
    tabCall         \* the tab pin() or unpin() was last called on

storeVars == <<db, caseSensitive, dbOpen, files, dbVer, proc, exitCode, last>>
refVars == <<walk, pos, refs, fileAnnotationRefs>>
cacheVars == <<cache, pending>>
lifeVars == <<historyDB, assetContentDB, gc, locks, pc>>
tabVars == <<children, tabBar, pinned, tabCall>>
extVars == <<call, nodes, gen, out, queue, blockTrees, tabVars>>
vars == <<db, caseSensitive, dbOpen, files, dbVer, proc, exitCode, last,
          walk, pos, refs, fileAnnotationRefs,
          cache, pending, historyDB, assetContentDB, gc, locks, pc,
          call, nodes, gen, out, queue, blockTrees,
          children, tabBar, pinned, tabCall>>

----------------------------------------------------------------------------
(* Bounds *)

\* The largest ROWID a table hands out: inserts stop when a table would pass it.
MaxRowID == 2

\* The longest walk refsFromTree is run on.
MaxWalk == 3

\* The longest statement a template function is given, in characters, and the most
\* arguments it is given.
MaxStmt == 3
MaxArgs == 2

\* The most nodes a document has below its document node, and the most times it is
\* indexed.
MaxNodes == 4
MaxIndex == 2
\* The most reference nodes of the using document, and the most documents that wait
\* to be indexed.
MaxRefs == 1
MaxQueue == 2

----------------------------------------------------------------------------
(* Documents. An identifier is a 14-digit time stamp and 7 characters of   *)
(* [0-9a-z]; a path is made of identifiers, "/" and ".sy". A path is kept  *)
(* as the sequence of its identifiers, so neither a LIKE wildcard nor an   *)
(* upper-case letter occurs in one.                                        *)

Roots == {"r1", "r2"}
Boxes == {"b1", "b2"}
HPaths == {"h1", "h2"}

\* r2 is a top-level document or a sub-document of r1.
\* parse.Tree: ID, Box, Path, HPath. r1 is a top-level document of box b1; r2 is a
\* sub-document of r1 or a top-level document of box b2.
Trees ==
    [ID : {"r1"}, Box : {"b1"}, Path : {<<"r1">>}, HPath : {"h1"}]
    \cup [ID : {"r2"}, Box : {"b1"}, Path : {<<"r1", "r2">>}, HPath : HPaths]
    \cup [ID : {"r2"}, Box : {"b2"}, Path : {<<"r2">>}, HPath : HPaths]

\* The prefixes batchDeleteByPathPrefix is called with.
PathPrefixes == {<<"r1">>, <<"r2">>}

DatabaseVer == "ver"
ExitCodeReadOnlyDatabase == "ExitCodeReadOnlyDatabase"

TableNames == {"blocks", "blocks_fts", "blocks_fts_case_insensitive", "spans",
               "assets", "refs", "file_annotation_refs", "attributes"}
\* The tables whose rows deleteBlocksByIDs addresses by ROWID.
BlockTables == {"blocks", "blocks_fts", "blocks_fts_case_insensitive"}
DerivedTables == TableNames \ BlockTables
DBFiles == {"db", "db-shm", "db-wal"}

\* initDBTables: every table dropped and created again.
initDBTables == [t \in TableNames |-> {}]

----------------------------------------------------------------------------
(* Rows *)

\* buildBlockFromNode for the document node: one row of blocks (ROWID is given on insert).
buildBlockFromNode(tree) ==
    [id |-> tree.ID, root_id |-> tree.ID, box |-> tree.Box, path |-> tree.Path,
     hpath |-> tree.HPath, content |-> "title", fcontent |-> "title", markdown |-> ""]

\* A span, ref, file annotation ref or attribute of the document block.
derivedRow(tree) ==
    [block_id |-> tree.ID, root_id |-> tree.ID, box |-> tree.Box, path |-> tree.Path]

\* An asset: the document's path is column docpath.
assetRow(tree) ==
    [block_id |-> tree.ID, root_id |-> tree.ID, box |-> tree.Box, docpath |-> tree.Path]

Max(S) == CHOOSE m \in S : \A x \in S : x <= m

\* SQLite's ROWID for a row inserted without one: the largest ROWID in the table plus one.
NextRowID(table) == IF table = {} THEN 1 ELSE Max({r.rowid : r \in table}) + 1

----------------------------------------------------------------------------
(* Statements *)

\* SQL LIKE: % matches any run of characters, _ any one character.
RECURSIVE Like(_, _)
Like(pattern, s) ==
    IF pattern = <<>> THEN s = <<>>
    ELSE IF Head(pattern) = "%"
         THEN \E k \in 0..Len(s) : Like(Tail(pattern), SubSeq(s, k + 1, Len(s)))
         ELSE /\ s # <<>>
              /\ Head(pattern) = "_" \/ Head(pattern) = Head(s)
              /\ Like(Tail(pattern), Tail(s))

Stmt(kind, via, table, where, a, b, set, row) ==
    [kind |-> kind, via |-> via, table |-> table, where |-> where, a |-> a, b |-> b,
     set |-> set, row |-> row]

Delete(table, where, a, b) == Stmt("DELETE", "execStmtTx", table, where, a, b, <<>>, <<>>)
Update(table, set, where, a) == Stmt("UPDATE", "execStmtTx", table, where, a, <<>>, set, <<>>)
Insert(table, row) == Stmt("INSERT", "prepareExecInsertTx", table, "", <<>>, <<>>, <<>>, row)
Select(table, where, a) == Stmt("SELECT", "Query", table, where, a, <<>>, <<>>, <<>>)

\* The WHERE clause of a statement on a row.
Matches(r, s) ==
    CASE s.where = "root_id = ?" -> r.root_id = s.a
      [] s.where = "root_id IN" -> r.root_id \in s.a
      [] s.where = "box = ?" -> r.box = s.a
      [] s.where = "box = ? AND path LIKE ?" -> r.box = s.a /\ Like(s.b, r.path)
      [] s.where = "box = ? AND docpath LIKE ?" -> r.box = s.a /\ Like(s.b, r.docpath)
      [] s.where = "ROWID IN" -> r.rowid \in s.a
      [] s.where = "id IN" -> r.id \in s.a

\* UPDATE ... SET: the statements of this file set box, path and hpath, or hpath alone.
SetColumns(r, set) ==
    [r EXCEPT !.box = IF "box" \in DOMAIN set THEN set.box ELSE @,
              !.path = IF "path" \in DOMAIN set THEN set.path ELSE @,
              !.hpath = IF "hpath" \in DOMAIN set THEN set.hpath ELSE @]

WithRowID(row, n) ==
    [rowid |-> n, id |-> row.id, root_id |-> row.root_id, box |-> row.box,
     path |-> row.path, hpath |-> row.hpath, content |-> row.content,
     fcontent |-> row.fcontent, markdown |-> row.markdown]

\* What a statement that succeeds does to the tables the transaction sees.
Apply(s, T) ==
    CASE s.kind = "DELETE" ->
           [T EXCEPT ![s.table] = {r \in @ : ~Matches(r, s)}]
      [] s.kind = "UPDATE" ->
           [T EXCEPT ![s.table] = {IF Matches(r, s) THEN SetColumns(r, s.set) ELSE r : r \in @}]
      [] s.kind = "INSERT" ->
           [T EXCEPT ![s.table] =
               @ \cup {IF s.table \in BlockTables THEN WithRowID(s.row, NextRowID(@)) ELSE s.row}]
      [] s.kind = "SELECT" -> T

\* A call that is no statement: ClearCache, removeBlockCache, eventbus.Publish.
Call(name, a) == Stmt("CALL", "", name, "", a, <<>>, <<>>, <<>>)

----------------------------------------------------------------------------
(* The mutating operations: the statements and calls each one makes, in    *)
(* the order of the code. cs is the value of caseSensitive it reads.       *)

RECURSIVE SeqOfSet(_)
SeqOfSet(S) == IF S = {} THEN <<>> ELSE LET x == CHOOSE y \in S : TRUE IN <<x>> \o SeqOfSet(S \ {x})

deleteBlocksByBoxTx(cs, box) ==
    <<Delete("blocks", "box = ?", box, <<>>),
      Delete("blocks_fts", "box = ?", box, <<>>)>>
    \o (IF ~cs THEN <<Delete("blocks_fts_case_insensitive", "box = ?", box, <<>>)>> ELSE <<>>)
    \o <<Call("ClearCache", <<>>)>>

deleteSpansByBoxTx(box) == <<Delete("spans", "box = ?", box, <<>>)>>
deleteAssetsByBoxTx(box) == <<Delete("assets", "box = ?", box, <<>>)>>
deleteAttributesByBoxTx(box) == <<Delete("attributes", "box = ?", box, <<>>)>>
deleteBlockRefsByBoxTx(box) == <<Delete("refs", "box = ?", box, <<>>)>>
deleteFileAnnotationRefsByBoxTx(box) == <<Delete("file_annotation_refs", "box = ?", box, <<>>)>>

deleteByBoxTx(cs, box) ==
    deleteBlocksByBoxTx(cs, box) \o deleteSpansByBoxTx(box) \o deleteAssetsByBoxTx(box)
    \o deleteAttributesByBoxTx(box) \o deleteBlockRefsByBoxTx(box)
    \o deleteFileAnnotationRefsByBoxTx(box)

\* T: the tables the transaction sees when the ROWIDs are looked up.
deleteBlocksByIDs(cs, ids, T) ==
    IF ids = {} THEN <<>>
    ELSE LET rowIDs == {r.rowid : r \in {x \in T["blocks"] : x.id \in ids}}
         IN [i \in 1..Cardinality(ids) |-> Call("removeBlockCache", SeqOfSet(ids)[i])]
            \o <<Select("blocks", "id IN", ids)>>
            \o (IF rowIDs = {} THEN <<>>
                ELSE <<Delete("blocks", "ROWID IN", rowIDs, <<>>),
                       Delete("blocks_fts", "ROWID IN", rowIDs, <<>>)>>
                     \o (IF ~cs
                         THEN <<Delete("blocks_fts_case_insensitive", "ROWID IN", rowIDs, <<>>)>>
                         ELSE <<>>))

\* deleteByRootID that leaves the spans of the root.
deleteByRootIDKeepSpans(cs, rootID) ==
    <<Delete("blocks", "root_id = ?", rootID, <<>>),
      Delete("blocks_fts", "root_id = ?", rootID, <<>>)>>
    \o (IF ~cs THEN <<Delete("blocks_fts_case_insensitive", "root_id = ?", rootID, <<>>)>>
        ELSE <<>>)
    \o <<Delete("assets", "root_id = ?", rootID, <<>>),
         Delete("refs", "root_id = ?", rootID, <<>>),
         Delete("file_annotation_refs", "root_id = ?", rootID, <<>>),
         Delete("attributes", "root_id = ?", rootID, <<>>),
         Call("ClearCache", <<>>),
         Call("Publish EvtSQLDeleteBlocks", rootID)>>

\* deleteByRootID that publishes the event before its first statement.
deleteByRootIDPublishFirst(cs, rootID) ==
    <<Call("Publish EvtSQLDeleteBlocks", rootID),
      Delete("blocks", "root_id = ?", rootID, <<>>),
      Delete("blocks_fts", "root_id = ?", rootID, <<>>)>>
    \o (IF ~cs THEN <<Delete("blocks_fts_case_insensitive", "root_id = ?", rootID, <<>>)>>
        ELSE <<>>)
    \o <<Delete("spans", "root_id = ?", rootID, <<>>),
         Delete("assets", "root_id = ?", rootID, <<>>),
         Delete("refs", "root_id = ?", rootID, <<>>),
         Delete("file_annotation_refs", "root_id = ?", rootID, <<>>),
         Delete("attributes", "root_id = ?", rootID, <<>>),
         Call("ClearCache", <<>>)>>

deleteByRootID(cs, rootID) ==
    <<Delete("blocks", "root_id = ?", rootID, <<>>),
      Delete("blocks_fts", "root_id = ?", rootID, <<>>)>>
    \o (IF ~cs THEN <<Delete("blocks_fts_case_insensitive", "root_id = ?", rootID, <<>>)>>
        ELSE <<>>)
    \o <<Delete("spans", "root_id = ?", rootID, <<>>),
         Delete("assets", "root_id = ?", rootID, <<>>),
         Delete("refs", "root_id = ?", rootID, <<>>),
         Delete("file_annotation_refs", "root_id = ?", rootID, <<>>),
         Delete("attributes", "root_id = ?", rootID, <<>>),
         Call("ClearCache", <<>>),
         Call("Publish EvtSQLDeleteBlocks", rootID)>>

batchDeleteByRootIDs(cs, rootIDs) ==
    IF rootIDs = {} THEN <<>>
    ELSE <<Delete("blocks", "root_id IN", rootIDs, <<>>),
           Delete("blocks_fts", "root_id IN", rootIDs, <<>>)>>
         \o (IF ~cs THEN <<Delete("blocks_fts_case_insensitive", "root_id IN", rootIDs, <<>>)>>
             ELSE <<>>)
         \o <<Delete("spans", "root_id IN", rootIDs, <<>>),
              Delete("assets", "root_id IN", rootIDs, <<>>),
              Delete("refs", "root_id IN", rootIDs, <<>>),
              Delete("file_annotation_refs", "root_id IN", rootIDs, <<>>),
              Delete("attributes", "root_id IN", rootIDs, <<>>),
              Call("ClearCache", <<>>),
              Call("Publish EvtSQLDeleteBlocks", Cardinality(rootIDs))>>

\* batchDeleteByPathPrefix that deletes by box alone.
batchDeleteByPathPrefixWholeBox(cs, boxID, pathPrefix) == deleteByBoxTx(cs, boxID)

batchDeleteByPathPrefix(cs, boxID, pathPrefix) ==
    LET like == pathPrefix \o <<"%">> IN
    <<Delete("blocks", "box = ? AND path LIKE ?", boxID, like),
      Delete("blocks_fts", "box = ? AND path LIKE ?", boxID, like)>>
    \o (IF ~cs
        THEN <<Delete("blocks_fts_case_insensitive", "box = ? AND path LIKE ?", boxID, like)>>
        ELSE <<>>)
    \o <<Delete("spans", "box = ? AND path LIKE ?", boxID, like),
         Delete("assets", "box = ? AND docpath LIKE ?", boxID, like),
         Delete("refs", "box = ? AND path LIKE ?", boxID, like),
         Delete("file_annotation_refs", "box = ? AND path LIKE ?", boxID, like),
         Delete("attributes", "box = ? AND path LIKE ?", boxID, like),
         Call("ClearCache", <<>>)>>

batchUpdatePath(cs, tree) ==
    LET set == [box |-> tree.Box, path |-> tree.Path, hpath |-> tree.HPath] IN
    <<Update("blocks", set, "root_id = ?", tree.ID),
      Update("blocks_fts", set, "root_id = ?", tree.ID)>>
    \o (IF ~cs THEN <<Update("blocks_fts_case_insensitive", set, "root_id = ?", tree.ID)>>
        ELSE <<>>)
    \o <<Call("ClearCache", <<>>), Call("Publish EvtSQLUpdateBlocksHPaths", tree.ID)>>

\* batchUpdateHPath without the test of caseSensitive.
batchUpdateHPathNoModeCheck(cs, tree) ==
    LET set == [hpath |-> tree.HPath] IN
    <<Update("blocks", set, "root_id = ?", tree.ID),
      Update("blocks_fts", set, "root_id = ?", tree.ID),
      Update("blocks_fts_case_insensitive", set, "root_id = ?", tree.ID),
      Call("ClearCache", <<>>), Call("Publish EvtSQLUpdateBlocksHPaths", tree.ID)>>

batchUpdateHPath(cs, tree) ==
    LET set == [hpath |-> tree.HPath] IN
    <<Update("blocks", set, "root_id = ?", tree.ID),
      Update("blocks_fts", set, "root_id = ?", tree.ID)>>
    \o (IF ~cs THEN <<Update("blocks_fts_case_insensitive", set, "root_id = ?", tree.ID)>>
        ELSE <<>>)
    \o <<Call("ClearCache", <<>>), Call("Publish EvtSQLUpdateBlocksHPaths", tree.ID)>>

\* The rows of a freshly extracted tree, written table by table; the case-insensitive
\* full-text table is written only when case-sensitive mode is off.
insertTree(cs, tree) ==
    <<Insert("blocks", buildBlockFromNode(tree)),
      Insert("blocks_fts", buildBlockFromNode(tree))>>
    \o (IF ~cs THEN <<Insert("blocks_fts_case_insensitive", buildBlockFromNode(tree))>>
        ELSE <<>>)
    \o <<Insert("spans", derivedRow(tree)),
         Insert("assets", assetRow(tree)),
         Insert("attributes", derivedRow(tree)),
         Insert("refs", derivedRow(tree)),
         Insert("file_annotation_refs", derivedRow(tree))>>

\* Full reindex of a root document: its rows deleted, the fresh rows inserted.
reindex(cs, tree) == deleteByRootID(cs, tree.ID) \o insertTree(cs, tree)

----------------------------------------------------------------------------
(* Statement execution. e is what the store answers: "none", or an error   *)
(* text, "database disk image is malformed" among them.                    *)

Malformed == "database disk image is malformed"
Locked == "database is locked"

\* execStmtTx that returns nil whatever the statement answered.
execStmtTxSwallow(s, T, e) ==
    IF e = "none" THEN [tx |-> Apply(s, T), ret |-> "nil", fatal |-> <<>>]
    ELSE [tx |-> T, ret |-> "nil", fatal |-> <<>>]

\* execStmtTx: nil, the error, or the fatal path, whose calls are listed in order.
execStmtTx(s, T, e) ==
    IF e = "none" THEN [tx |-> Apply(s, T), ret |-> "nil", fatal |-> <<>>]
    ELSE IF e = Malformed
         THEN [tx |-> T, ret |-> "fatal",
               fatal |-> <<"tx.Rollback", "closeDatabase", "removeDatabaseFile", "LogFatalf">>]
         ELSE [tx |-> T, ret |-> "err", fatal |-> <<>>]

\* prepareExecInsertTx: nil or the error, whatever the error is.
prepareExecInsertTx(s, T, e) ==
    IF e = "none" THEN [tx |-> Apply(s, T), ret |-> "nil", fatal |-> <<>>]
    ELSE [tx |-> T, ret |-> "err", fatal |-> <<>>]

\* tx.Query whose error is dropped.
txQueryIgnored(s, T, e) == [tx |-> T, ret |-> "nil", fatal |-> <<>>]

\* tx.Query in deleteBlocksByIDs: nil or the error.
txQuery(s, T, e) ==
    IF e = "none" THEN [tx |-> T, ret |-> "nil", fatal |-> <<>>]
    ELSE [tx |-> T, ret |-> "err", fatal |-> <<>>]

NoFault == [at |-> 0, err |-> "none"]

\* last when no operation is under way and the result of the one before has been taken.
Idle == [op |-> "", arg |-> FALSE, cs |-> FALSE, ret |-> "nil", at |-> 0, err |-> "none",
         issued |-> <<>>, fatal |-> <<>>, committed |-> FALSE, failing |-> 0]

\* An operation runs its statements in order and returns at the first one that fails:
\* tx is what the transaction sees then, n the number of statements and calls made.
RECURSIVE Run(_, _, _, _)
Run(steps, i, T, fault) ==
    IF i > Len(steps) THEN [tx |-> T, ret |-> "nil", fatal |-> <<>>, n |-> Len(steps)]
    ELSE LET s == steps[i]
             e == IF fault.at = i THEN fault.err ELSE "none"
             r == CASE s.via = "execStmtTx" -> execStmtTx(s, T, e)
                    [] s.via = "prepareExecInsertTx" -> prepareExecInsertTx(s, T, e)
                    [] s.via = "Query" -> txQuery(s, T, e)
                    [] OTHER -> [tx |-> T, ret |-> "nil", fatal |-> <<>>]
         IN IF r.ret = "nil" THEN Run(steps, i + 1, r.tx, fault)
            ELSE [tx |-> r.tx, ret |-> r.ret, fatal |-> r.fatal, n |-> i]

\* commitTx: tx.Commit lands every change of the transaction or, failing, none.
commitTx(T, work, ok) == IF ok THEN [db |-> work, ret |-> "nil"] ELSE [db |-> T, ret |-> "err"]

\* removeDatabaseFile: three os.RemoveAll in a row, returning at the first that fails.
\* failing = 0 when none fails, else the number of the one that does.
removeDatabaseFile(fs, failing) ==
    CASE failing = 0 -> fs \ {"db", "db-shm", "db-wal"}
      [] failing = 1 -> fs
      [] failing = 2 -> fs \ {"db"}
      [] failing = 3 -> fs \ {"db", "db-shm"}

\* os.RemoveAll of a path that does not exist returns nil.
CanFail(fs, failing) ==
    \/ failing = 0
    \/ failing = 1 /\ "db" \in fs
    \/ failing = 2 /\ "db-shm" \in fs
    \/ failing = 3 /\ "db-wal" \in fs

\* One call of the fatal path on the process: P.db is what is on disk, P.closed the
\* other stores that are closed when closeDatabase forces its runtime.GC.
Do(c, P, failing) ==
    CASE c = "tx.Rollback" -> [P EXCEPT !.tx = "rolled back"]
      [] c = "closeDatabase" -> [P EXCEPT !.open = FALSE, !.gc = @ \cup {"db"} \cup P.closed]
      [] c = "removeDatabaseFile" ->
           LET fs == removeDatabaseFile(P.files, failing) IN
           [P EXCEPT !.files = fs,
                     !.db = IF "db" \in fs THEN @ ELSE initDBTables,
                     !.ver = IF "db" \in fs THEN @ ELSE ""]
      [] c = "LogFatalf" -> [P EXCEPT !.proc = "exited", !.code = ExitCodeReadOnlyDatabase]

RECURSIVE Perform(_, _, _)
Perform(calls, P, failing) ==
    IF calls = <<>> THEN P ELSE Perform(Tail(calls), Do(Head(calls), P, failing), failing)

Steps(op, arg, cs, T) ==
    CASE op = "reindex" -> reindex(cs, arg)
      [] op = "deleteBlocksByIDs" -> deleteBlocksByIDs(cs, arg, T)
      [] op = "deleteByBoxTx" -> deleteByBoxTx(cs, arg)
      [] op = "deleteByRootID" -> deleteByRootID(cs, arg)
      [] op = "batchDeleteByRootIDs" -> batchDeleteByRootIDs(cs, arg)
      [] op = "batchDeleteByPathPrefix" -> batchDeleteByPathPrefix(cs, arg.box, arg.prefix)
      [] op = "batchUpdatePath" -> batchUpdatePath(cs, arg)
      [] op = "batchUpdateHPath" -> batchUpdateHPath(cs, arg)

\* Where a statement of an operation can fail: at any statement, not at a call.
Faults(steps, errs) ==
    {NoFault} \cup {[at |-> i, err |-> e] : i \in {j \in 1..Len(steps) : steps[j].kind # "CALL"},
                                            e \in errs}

\* The statements and calls an operation made: kind, table (or call), and the path it took.
Issued(steps, n) == [i \in 1..n |-> <<steps[i].kind, steps[i].table, steps[i].via>>]

\* The history and asset-content stores that are closed.
ClosedStores ==
    {s \in {"history", "asset"} :
        \/ s = "history" /\ ~historyDB.open
        \/ s = "asset" /\ ~assetContentDB.open}

\* The read cache after the first n statements and calls of an operation: ClearCache
\* empties it, removeBlockCache(id) drops the entry of one block.
RECURSIVE CacheAfter(_, _, _)
CacheAfter(c, steps, n) ==
    IF n = 0 THEN c
    ELSE LET before == CacheAfter(c, steps, n - 1)
             s == steps[n]
         IN CASE s.kind = "CALL" /\ s.table = "ClearCache" -> {}
              [] s.kind = "CALL" /\ s.table = "removeBlockCache" -> {x \in before : x.id # s.a}
              [] OTHER -> before

\* One mutating operation in its own transaction: beginTx, the operation, and then
\* commitTx when it returned nil, tx.Rollback when it returned an error.
Transact(op, arg, errs, commits) ==
    /\ proc = "running"
    /\ dbOpen
    /\ last = Idle
    /\ ~pending.open
    /\ \E steps \in {Steps(op, arg, caseSensitive, db)} :
       \E fault \in Faults(steps, errs) :
       \E r \in {Run(steps, 1, db, fault)} :
       \E ok \in IF r.ret = "nil" THEN commits ELSE {TRUE} :
       \E failing \in IF r.ret = "fatal" THEN {f \in 0..3 : CanFail(files, f)} ELSE {0} :
       \E P \in {Perform(r.fatal,
                         [tx |-> "open", db |-> db, ver |-> dbVer, open |-> dbOpen,
                          files |-> files, proc |-> proc, code |-> exitCode,
                          gc |-> gc, closed |-> ClosedStores], failing)} :
          /\ \A t \in BlockTables : \A row \in r.tx[t] : row.rowid <= MaxRowID
          /\ db' = IF r.ret = "nil" THEN commitTx(db, r.tx, ok).db ELSE P.db
          /\ dbVer' = P.ver
          /\ dbOpen' = P.open
          /\ files' = P.files
          /\ proc' = P.proc
          /\ exitCode' = P.code
          /\ gc' = P.gc
          /\ cache' = CacheAfter(cache, steps, r.n)
          /\ last' = [op |-> op, arg |-> arg, cs |-> caseSensitive,
                      ret |-> IF r.ret = "nil" THEN commitTx(db, r.tx, ok).ret ELSE r.ret,
                      at |-> fault.at, err |-> fault.err,
                      issued |-> Issued(steps, r.n), fatal |-> r.fatal,
                      committed |-> r.ret = "nil" /\ ok,
                      failing |-> failing]
    /\ UNCHANGED <<caseSensitive, walk, pos, refs, fileAnnotationRefs, extVars,
                   pending, historyDB, assetContentDB, locks, pc>>

SetCaseSensitive(b) ==
    /\ proc = "running"
    /\ dbOpen
    /\ last = Idle
    /\ caseSensitive' = b
    /\ last' = [op |-> "SetCaseSensitive", arg |-> b, cs |-> caseSensitive, ret |-> "nil",
                at |-> 0, err |-> "none", issued |-> <<>>, fatal |-> <<>>,
                committed |-> FALSE, failing |-> 0]
    /\ UNCHANGED <<db, dbOpen, files, dbVer, proc, exitCode, walk, pos, refs, fileAnnotationRefs, extVars>>
    /\ UNCHANGED <<cacheVars, lifeVars>>

\* InitDatabase: the store is reused when the persisted version is the expected one
\* and no rebuild is forced; else closed, its files removed, reopened, its tables made.
InitDatabase(forceRebuild, failing) ==
    /\ IF ~forceRebuild /\ dbVer = DatabaseVer
       THEN /\ failing = 0
            /\ UNCHANGED <<db, dbVer>>
       ELSE /\ CanFail(files \cup DBFiles, failing)
            /\ db' = initDBTables
            /\ dbVer' = DatabaseVer
    /\ dbOpen' = TRUE
    /\ files' = DBFiles
    /\ cache' = {}
    /\ gc' = gc \ {"db"}
    /\ last' = [op |-> "InitDatabase", arg |-> forceRebuild, cs |-> caseSensitive,
                ret |-> "nil", at |-> 0, err |-> "none", issued |-> <<>>, fatal |-> <<>>,
                committed |-> FALSE, failing |-> failing]

\* The kernel is started again after it exited: caseSensitive is false until it is set.
Restart ==
    /\ proc = "exited"
    /\ proc' = "running"
    /\ exitCode' = ""
    /\ caseSensitive' = FALSE
    /\ \E failing \in 0..3 : InitDatabase(FALSE, failing)
    /\ UNCHANGED <<walk, pos, refs, fileAnnotationRefs, extVars,
                   pending, historyDB, assetContentDB, locks, pc>>

Rebuild ==
    /\ proc = "running"
    /\ last = Idle
    /\ \E failing \in 0..3 : InitDatabase(TRUE, failing)
    /\ UNCHANGED <<caseSensitive, proc, exitCode, walk, pos, refs, fileAnnotationRefs, extVars,
                   pending, historyDB, assetContentDB, locks, pc>>

----------------------------------------------------------------------------
(* The store under every operation. Errs: the errors a statement may fail  *)
(* with; Commits: whether tx.Commit may fail.                              *)

Reindex(trees, errs, commits) ==
    \E tree \in trees : Transact("reindex", tree, errs, commits)
DeleteBlocksByIDs(roots, errs, commits) ==
    \E ids \in SUBSET roots : Transact("deleteBlocksByIDs", ids, errs, commits)
DeleteByBoxTx(boxes, errs, commits) ==
    \E box \in boxes : Transact("deleteByBoxTx", box, errs, commits)
DeleteByRootID(roots, errs, commits) ==
    \E rootID \in roots : Transact("deleteByRootID", rootID, errs, commits)
BatchDeleteByRootIDs(roots, errs, commits) ==
    \E rootIDs \in SUBSET roots : Transact("batchDeleteByRootIDs", rootIDs, errs, commits)
BatchDeleteByPathPrefix(boxes, prefixes, errs, commits) ==
    \E box \in boxes, prefix \in prefixes :
        Transact("batchDeleteByPathPrefix", [box |-> box, prefix |-> prefix], errs, commits)
BatchUpdatePath(trees, errs, commits) ==
    \E tree \in trees : Transact("batchUpdatePath", tree, errs, commits)
BatchUpdateHPath(trees, errs, commits) ==
    \E tree \in trees : Transact("batchUpdateHPath", tree, errs, commits)
SwitchCase == \E b \in BOOLEAN : SetCaseSensitive(b)

\* The caller has taken the result of the operation.
Return ==
    /\ proc = "running"
    /\ last # Idle
    /\ last' = Idle
    /\ UNCHANGED <<db, caseSensitive, dbOpen, files, dbVer, proc, exitCode,
                   walk, pos, refs, fileAnnotationRefs, extVars>>
    /\ UNCHANGED <<cacheVars, lifeVars>>

NoTx == [open |-> FALSE, op |-> "", arg |-> FALSE, work |-> initDBTables]

\* No transaction is open, no initialization under way, the three stores are open.
Threads == {"t1", "t2"}
LockNames == {"initDatabaseLock", "initHistoryDatabaseLock", "initAssetContentDatabaseLock"}
Ready == [open |-> TRUE, file |-> TRUE, tables |-> TRUE]
IdlePC == [fn |-> "", step |-> "idle", force |-> FALSE, log |-> <<>>]

InitLifeIdle ==
    /\ cache = {}
    /\ pending = NoTx
    /\ historyDB = Ready
    /\ assetContentDB = Ready
    /\ gc = {}
    /\ locks = [l \in LockNames |-> "free"]
    /\ pc = [t \in Threads |-> IdlePC]

\* No function is called on its own, no document is being extracted or waits to be
\* indexed, no block is in the block-location index.
NoCall == [fn |-> "", done |-> FALSE]
NoRows == [blocks |-> <<>>, spans |-> <<>>, assets |-> <<>>, attributes |-> <<>>]

\* No window with a tab bar is open.
NoTab == [fn |-> "", id |-> 0, moved |-> FALSE]

InitTabsIdle ==
    /\ children = <<>>
    /\ tabBar = <<>>
    /\ pinned = {}
    /\ tabCall = NoTab

InitExtIdle ==
    /\ InitTabsIdle
    /\ call = NoCall
    /\ nodes = <<>>
    /\ gen = 0
    /\ out = NoRows
    /\ queue = <<>>
    /\ blockTrees = {}

InitStore ==
    /\ db = initDBTables
    /\ caseSensitive = FALSE
    /\ dbOpen = TRUE
    /\ files = DBFiles
    /\ dbVer = DatabaseVer
    /\ proc = "running"
    /\ exitCode = ""
    /\ last = Idle

----------------------------------------------------------------------------
(* refsFromTree. The tree is given as the nodes ast.Walk leaves, in order: *)
(* kind says what treenode.IsBlockRef, IsFileAnnotationRef and             *)
(* IsEmbedBlockRef answer, id is the node's ID, parent the ID of           *)
(* treenode.ParentBlock, def the block the node refers to (for a file      *)
(* annotation, TextMarkFileAnnotationRefID split at its "/").              *)

RefNodes ==
    [kind : {"block-ref"}, id : {""}, parent : {"A1", "A2"}, def : {"B", "C"}]
    \cup [kind : {"embed"}, id : {"A1", "A2"}, parent : {"D"}, def : {"B", "C"}]
    \cup [kind : {"file-annotation-ref"}, id : {""}, parent : {"A1"},
          def : {<<"f.pdf", "a1">>, <<"a1">>}]
    \cup [kind : {"text"}, id : {""}, parent : {"A1"}, def : {""}]

Walks == UNION {[1..n -> RefNodes] : n \in 0..MaxWalk}

\* isRepeatedRef that compares the defining block only.
isRepeatedRefDefOnly(rs, ref) ==
    \E i \in DOMAIN rs : rs[i].DefBlockID = ref.DefBlockID

\* isRepeatedRef: some ref already kept has the same defining and the same using block.
isRepeatedRef(rs, ref) ==
    \E i \in DOMAIN rs : rs[i].DefBlockID = ref.DefBlockID /\ rs[i].BlockID = ref.BlockID

\* What treenode.GetBlockTree answers for a block the index does not hold (nil).
NoBlockTree == [ID |-> "", ParentID |-> "", RootID |-> "", Path |-> <<>>]

\* treenode.GetBlockTree: the entry of the block-location index for a block.
GetBlockTree(id) ==
    IF \E bt \in blockTrees : bt.ID = id
    THEN CHOOSE bt \in blockTrees : bt.ID = id
    ELSE NoBlockTree

\* buildRef: the using block is the parent block of the reference node; the defining
\* block's parent, root and path are read from the block-location index when it holds
\* the block and are left empty otherwise.
buildRef(n, k) ==
    LET defBlock == GetBlockTree(n.def) IN
    [node |-> k, DefBlockID |-> n.def,
     DefBlockParentID |-> IF defBlock # NoBlockTree THEN defBlock.ParentID ELSE "",
     DefBlockRootID |-> IF defBlock # NoBlockTree THEN defBlock.RootID ELSE "",
     DefBlockPath |-> IF defBlock # NoBlockTree THEN defBlock.Path ELSE <<>>,
     BlockID |-> n.parent, Type |-> "textmark", Content |-> "anchor"]

\* buildEmbedRef: the using block is the embed block itself; no content.
buildEmbedRef(n, k) ==
    LET defBlock == GetBlockTree(n.def) IN
    [node |-> k, DefBlockID |-> n.def,
     DefBlockParentID |-> IF defBlock # NoBlockTree THEN defBlock.ParentID ELSE "",
     DefBlockRootID |-> IF defBlock # NoBlockTree THEN defBlock.RootID ELSE "",
     DefBlockPath |-> IF defBlock # NoBlockTree THEN defBlock.Path ELSE <<>>,
     BlockID |-> n.id, Type |-> "query_embed", Content |-> ""]

\* strings.LastIndex(pathID, "/"): 0 stands for -1 (no "/").
LastSlash(pathID) == Len(pathID) - 1

\* What leaving node n, the k-th of the walk, appends to refs and fileAnnotationRefs.
refsFromTreeVisit(n, k, rs, fars) ==
    CASE n.kind = "block-ref" ->
           [refs |-> IF ~isRepeatedRef(rs, buildRef(n, k))
                     THEN Append(rs, buildRef(n, k)) ELSE rs,
            fileAnnotationRefs |-> fars]
      [] n.kind = "file-annotation-ref" ->
           [refs |-> rs,
            fileAnnotationRefs |->
                IF LastSlash(n.def) = 0 THEN fars
                ELSE Append(fars, [node |-> k,
                                   FilePath |-> SubSeq(n.def, 1, LastSlash(n.def)),
                                   AnnotationID |-> n.def[Len(n.def)],
                                   BlockID |-> n.parent])]
      [] n.kind = "embed" ->
           [refs |-> IF ~isRepeatedRef(rs, buildEmbedRef(n, k))
                     THEN Append(rs, buildEmbedRef(n, k)) ELSE rs,
            fileAnnotationRefs |-> fars]
      [] OTHER -> [refs |-> rs, fileAnnotationRefs |-> fars]

\* ast.Walk leaves the next node.
Visit ==
    /\ pos < Len(walk)
    /\ \E r \in {refsFromTreeVisit(walk[pos + 1], pos + 1, refs, fileAnnotationRefs)} :
          /\ refs' = r.refs
          /\ fileAnnotationRefs' = r.fileAnnotationRefs
    /\ pos' = pos + 1
    /\ UNCHANGED <<walk, db, caseSensitive, dbOpen, files, dbVer, proc, exitCode, last>>
    /\ UNCHANGED <<cacheVars, lifeVars, extVars>>

InitRefs ==
    /\ walk \in Walks
    /\ pos = 0
    /\ refs = <<>>
    /\ fileAnnotationRefs = <<>>

NextRefs == Visit

\* refsFromTree on every tree of the bound, the store left alone.
InitWalk == InitStore /\ InitRefs /\ InitLifeIdle /\ InitExtIdle

SpecRefs == InitWalk /\ [][NextRefs]_vars

InitRefsIdle ==
    /\ walk = <<>>
    /\ pos = 0
    /\ refs = <<>>
    /\ fileAnnotationRefs = <<>>

Init == InitStore /\ InitRefsIdle /\ InitLifeIdle /\ InitExtIdle

\* Every statement succeeds.
Next ==
    \/ Reindex(Trees, {}, {TRUE})
    \/ DeleteBlocksByIDs(Roots, {}, {TRUE})
    \/ DeleteByBoxTx(Boxes, {}, {TRUE})
    \/ DeleteByRootID(Roots, {}, {TRUE})
    \/ BatchDeleteByRootIDs(Roots, {}, {TRUE})
    \/ BatchDeleteByPathPrefix(Boxes, PathPrefixes, {}, {TRUE})
    \/ BatchUpdatePath(Trees, {}, {TRUE})
    \/ BatchUpdateHPath(Trees, {}, {TRUE})
    \/ SwitchCase
    \/ Return

Spec == Init /\ [][Next]_vars

Errs == {Malformed, Locked}
FaultTrees == {t \in Trees : t.HPath = "h1"}

\* A statement may fail, and so may tx.Commit.
NextFault ==
    \/ Reindex(FaultTrees, Errs, BOOLEAN)
    \/ DeleteBlocksByIDs(Roots, Errs, BOOLEAN)
    \/ DeleteByBoxTx(Boxes, Errs, BOOLEAN)
    \/ DeleteByRootID(Roots, Errs, BOOLEAN)
    \/ BatchDeleteByRootIDs(Roots, Errs, BOOLEAN)
    \/ BatchDeleteByPathPrefix(Boxes, PathPrefixes, Errs, BOOLEAN)
    \/ BatchUpdatePath(FaultTrees, Errs, BOOLEAN)
    \/ BatchUpdateHPath(FaultTrees, Errs, BOOLEAN)
    \/ SwitchCase
    \/ Return
    \/ Restart

SpecFault == Init /\ [][NextFault]_vars

----------------------------------------------------------------------------
(* The read cache beside an open transaction. An operation runs inside the *)
(* transaction its caller began and returns; the caller commits afterwards. *)
(* A reader is served from the cache or, on a miss, from the committed     *)
(* store, and puts what it read into the cache.                            *)

\* The inputs of each operation.
Args(op) ==
    CASE op \in {"reindex", "batchUpdatePath", "batchUpdateHPath"} -> Trees
      [] op \in {"deleteBlocksByIDs", "batchDeleteByRootIDs"} -> SUBSET Roots
      [] op = "deleteByBoxTx" -> Boxes
      [] op = "deleteByRootID" -> Roots
      [] op = "batchDeleteByPathPrefix" -> [box : Boxes, prefix : PathPrefixes]

OpNames == {"reindex", "deleteBlocksByIDs", "deleteByBoxTx", "deleteByRootID",
            "batchDeleteByRootIDs", "batchDeleteByPathPrefix", "batchUpdatePath",
            "batchUpdateHPath"}

\* The operation has run all its statements and calls in the open transaction and
\* returned nil; the transaction is not committed yet.
Execute(op, arg) ==
    /\ proc = "running"
    /\ dbOpen
    /\ last = Idle
    /\ ~pending.open
    /\ \E steps \in {Steps(op, arg, caseSensitive, db)} :
       \E r \in {Run(steps, 1, db, NoFault)} :
          /\ \A t \in BlockTables : \A row \in r.tx[t] : row.rowid <= MaxRowID
          /\ pending' = [open |-> TRUE, op |-> op, arg |-> arg, work |-> r.tx]
          /\ cache' = CacheAfter(cache, steps, r.n)
          /\ last' = [op |-> op, arg |-> arg, cs |-> caseSensitive, ret |-> r.ret,
                      at |-> 0, err |-> "none", issued |-> Issued(steps, r.n),
                      fatal |-> <<>>, committed |-> FALSE, failing |-> 0]
    /\ UNCHANGED <<db, caseSensitive, dbOpen, files, dbVer, proc, exitCode, refVars, extVars, lifeVars>>

ExecuteAny == \E op \in OpNames : \E arg \in Args(op) : Execute(op, arg)

\* commitTx of the open transaction.
Commit ==
    /\ proc = "running"
    /\ dbOpen
    /\ last = Idle
    /\ pending.open
    /\ db' = commitTx(db, pending.work, TRUE).db
    /\ pending' = NoTx
    /\ last' = [op |-> "commitTx", arg |-> pending.arg, cs |-> caseSensitive,
                ret |-> commitTx(db, pending.work, TRUE).ret, at |-> 0, err |-> "none",
                issued |-> <<>>, fatal |-> <<>>, committed |-> TRUE, failing |-> 0,
                of |-> pending.op]
    /\ UNCHANGED <<caseSensitive, dbOpen, files, dbVer, proc, exitCode, cache, refVars, extVars, lifeVars>>

\* A read of one block: from the cache when it holds the block, else from the
\* committed store, the row found being put into the cache.
GetBlock(id) ==
    /\ proc = "running"
    /\ dbOpen
    /\ last = Idle
    /\ IF \E x \in cache : x.id = id
       THEN /\ \E x \in {y \in cache : y.id = id} :
                  last' = [op |-> "getBlock", arg |-> id, ret |-> "hit", row |-> x]
            /\ cache' = cache
       ELSE IF \E x \in db["blocks"] : x.id = id
            THEN \E x \in {y \in db["blocks"] : y.id = id} :
                    /\ last' = [op |-> "getBlock", arg |-> id, ret |-> "miss", row |-> x]
                    /\ cache' = cache \cup {x}
            ELSE /\ last' = [op |-> "getBlock", arg |-> id, ret |-> "none", row |-> <<>>]
                 /\ cache' = cache
    /\ UNCHANGED <<db, caseSensitive, dbOpen, files, dbVer, proc, exitCode, pending,
                   refVars, extVars, lifeVars>>

Read == \E id \in Roots : GetBlock(id)

NextCache ==
    \/ ExecuteAny
    \/ Commit
    \/ Read
    \/ Return

\* Readers beside the mutating operations, every statement succeeding.
SpecCache == Init /\ [][NextCache]_vars

----------------------------------------------------------------------------
(* The life of the three stores: InitDatabase, InitHistoryDatabase and     *)
(* InitAssetContentDatabase run by concurrent callers, statement by        *)
(* statement; CloseDatabase; beginTx and its two siblings.                 *)

InitFns == {"InitDatabase", "InitHistoryDatabase", "InitAssetContentDatabase"}

\* The mutex each initialization takes at entry and releases by defer at return.
LockOf(fn) ==
    CASE fn = "InitDatabase" -> "initDatabaseLock"
      [] fn = "InitHistoryDatabase" -> "initHistoryDatabaseLock"
      [] fn = "InitAssetContentDatabase" -> "initAssetContentDatabaseLock"

\* A Lock that does not wait for the mutex to be free.
LockNoWait(l, t) == locks' = [locks EXCEPT ![l] = t]

\* sync.Mutex: Lock blocks until the mutex is free.
Lock(l, t) == locks[l] = "free" /\ locks' = [locks EXCEPT ![l] = t]
Unlock(l, t) == locks' = [locks EXCEPT ![l] = "free"]

AllIdle == \A t \in Threads : pc[t].step = "idle"

\* InitDatabase that never returns early.
VersionNeverMatches(forceRebuild, ver) == FALSE

\* InitDatabase that does not compare the version.
VersionAlwaysMatches(forceRebuild, ver) == ~forceRebuild

\* InitDatabase returns early: no rebuild is forced and getDatabaseVer() is the
\* expected version.
VersionMatches(forceRebuild, ver) == ~forceRebuild /\ ver = DatabaseVer

\* InitHistoryDatabase, InitAssetContentDatabase return early: no rebuild is forced
\* and the store file exists.
FileExists(forceRebuild, store) == ~forceRebuild /\ store.file

At(t, fn, step) == proc = "running" /\ pc[t].fn = fn /\ pc[t].step = step
Goto(t, step, calls) ==
    pc' = [pc EXCEPT ![t].step = step, ![t].log = @ \o calls]
ReturnFrom(t) == pc' = [pc EXCEPT ![t] = IdlePC] /\ Unlock(LockOf(pc[t].fn), t)

\* A caller enters an initialization and finds itself at the Lock of its mutex.
CallInit(t) ==
    /\ proc = "running"
    /\ pc[t].step = "idle"
    /\ \E fn \in InitFns, force \in BOOLEAN :
          pc' = [pc EXCEPT ![t] = [fn |-> fn, step |-> "Lock", force |-> force, log |-> <<>>]]
    /\ UNCHANGED <<storeVars, refVars, extVars, cacheVars, historyDB, assetContentDB, gc, locks>>

Acquire(t) ==
    /\ proc = "running"
    /\ pc[t].step = "Lock"
    /\ Lock(LockOf(pc[t].fn), t)
    /\ Goto(t, "open", <<>>)
    /\ UNCHANGED <<storeVars, refVars, extVars, cacheVars, historyDB, assetContentDB, gc>>

\* closeDatabase: db.Close(), debug.FreeOSMemory(), runtime.GC(): the handles of every
\* closed pool are released.
closeDatabase(released, closed) == released \cup {"db"} \cup closed

\* InitDatabase, lines 75-87: ClearCache, initDBConnection (closeDatabase when db is
\* set, then sql.Open).
InitDatabaseOpen(t) ==
    /\ At(t, "InitDatabase", "open")
    /\ cache' = {}
    /\ dbOpen' = TRUE
    /\ gc' = closeDatabase(gc, ClosedStores) \ {"db"}
    /\ Goto(t, "check", <<"closeDatabase", "sql.Open">>)
    /\ UNCHANGED <<db, caseSensitive, files, dbVer, proc, exitCode, last, refVars, extVars, pending,
                   historyDB, assetContentDB, locks>>

\* InitDatabase, lines 88-94.
InitDatabaseCheck(t) ==
    /\ At(t, "InitDatabase", "check")
    /\ IF VersionMatches(pc[t].force, dbVer)
       THEN ReturnFrom(t)
       ELSE Goto(t, "close", <<>>) /\ UNCHANGED locks
    /\ UNCHANGED <<storeVars, refVars, extVars, cacheVars, historyDB, assetContentDB, gc>>

\* InitDatabase that goes on to the removal without closeDatabase.
InitDatabaseCloseSkipped(t) ==
    /\ proc = "running" /\ pc[t].fn = "InitDatabase" /\ pc[t].step = "close"
    /\ pc' = [pc EXCEPT ![t].step = "remove"]
    /\ UNCHANGED <<storeVars, refVars, extVars, cacheVars, historyDB, assetContentDB, gc, locks>>

\* InitDatabase, line 98.
InitDatabaseClose(t) ==
    /\ At(t, "InitDatabase", "close")
    /\ dbOpen' = FALSE
    /\ gc' = closeDatabase(gc, ClosedStores)
    /\ Goto(t, "remove", <<"closeDatabase">>)
    /\ UNCHANGED <<db, caseSensitive, files, dbVer, proc, exitCode, last, refVars, extVars, cacheVars,
                   historyDB, assetContentDB, locks>>

\* InitDatabase, lines 99-105: the error of removeDatabaseFile is logged and dropped.
InitDatabaseRemove(t) ==
    /\ At(t, "InitDatabase", "remove")
    /\ IF "db" \in files
       THEN \E failing \in {f \in 0..3 : CanFail(files, f)} :
               /\ files' = removeDatabaseFile(files, failing)
               /\ db' = IF "db" \in files' THEN db ELSE initDBTables
               /\ dbVer' = IF "db" \in files' THEN dbVer ELSE ""
               /\ Goto(t, "reopen", IF failing = 0 THEN <<"removeDatabaseFile">>
                                    ELSE <<"removeDatabaseFile: error">>)
       ELSE /\ UNCHANGED <<files, db, dbVer>>
            /\ Goto(t, "reopen", <<>>)
    /\ UNCHANGED <<caseSensitive, dbOpen, proc, exitCode, last, refVars, extVars, cacheVars,
                   historyDB, assetContentDB, gc, locks>>

\* InitDatabase, line 107.
InitDatabaseReopen(t) ==
    /\ At(t, "InitDatabase", "reopen")
    /\ dbOpen' = TRUE
    /\ gc' = closeDatabase(gc, ClosedStores) \ {"db"}
    /\ Goto(t, "tables", <<"closeDatabase", "sql.Open">>)
    /\ UNCHANGED <<db, caseSensitive, files, dbVer, proc, exitCode, last, refVars, extVars, cacheVars,
                   historyDB, assetContentDB, locks>>

\* InitDatabase, lines 108-111: initDBTables drops and creates every table and
\* persists the version; then the deferred Unlock.
InitDatabaseTables(t) ==
    /\ At(t, "InitDatabase", "tables")
    /\ db' = initDBTables
    /\ dbVer' = DatabaseVer
    /\ files' = DBFiles
    /\ ReturnFrom(t)
    /\ UNCHANGED <<caseSensitive, dbOpen, proc, exitCode, last, refVars, extVars, cacheVars,
                   historyDB, assetContentDB, gc>>

\* InitHistoryDatabase and InitAssetContentDatabase are the same code on two stores.
SideFns == {"InitHistoryDatabase", "InitAssetContentDatabase"}
StoreName(fn) == IF fn = "InitHistoryDatabase" THEN "history" ELSE "asset"
StoreOf(fn) == IF fn = "InitHistoryDatabase" THEN historyDB ELSE assetContentDB
SetStore(fn, x) ==
    IF fn = "InitHistoryDatabase"
    THEN historyDB' = x /\ assetContentDB' = assetContentDB
    ELSE assetContentDB' = x /\ historyDB' = historyDB
AtSide(t, step) == proc = "running" /\ pc[t].fn \in SideFns /\ pc[t].step = step

\* initHistoryDBConnection / initAssetContentDBConnection: Close when the pool is set,
\* then sql.Open.
InitSideDatabaseOpen(t) ==
    /\ AtSide(t, "open")
    /\ SetStore(pc[t].fn, [StoreOf(pc[t].fn) EXCEPT !.open = TRUE])
    /\ gc' = gc \ {StoreName(pc[t].fn)}
    /\ Goto(t, "check", <<"Close", "sql.Open">>)
    /\ UNCHANGED <<storeVars, refVars, extVars, cacheVars, locks>>

\* Lines 263-265 and 319-321.
InitSideDatabaseCheck(t) ==
    /\ AtSide(t, "check")
    /\ IF FileExists(pc[t].force, StoreOf(pc[t].fn))
       THEN ReturnFrom(t)
       ELSE Goto(t, "close", <<>>) /\ UNCHANGED locks
    /\ UNCHANGED <<storeVars, refVars, extVars, cacheVars, historyDB, assetContentDB, gc>>

\* historyDB.Close() / assetContentDB.Close(), lines 267 and 323: no runtime.GC.
InitSideDatabaseClose(t) ==
    /\ AtSide(t, "close")
    /\ SetStore(pc[t].fn, [StoreOf(pc[t].fn) EXCEPT !.open = FALSE])
    /\ Goto(t, "remove", <<"Close">>)
    /\ UNCHANGED <<storeVars, refVars, extVars, cacheVars, gc, locks>>

\* os.RemoveAll of the store file, lines 268-271 and 324-327: on error the function
\* logs and returns.
InitSideDatabaseRemove(t) ==
    /\ AtSide(t, "remove")
    /\ \E err \in IF StoreOf(pc[t].fn).file THEN BOOLEAN ELSE {FALSE} :
          IF err
          THEN /\ ReturnFrom(t)
               /\ UNCHANGED <<historyDB, assetContentDB>>
          ELSE /\ SetStore(pc[t].fn, [StoreOf(pc[t].fn) EXCEPT !.file = FALSE, !.tables = FALSE])
               /\ Goto(t, "reopen", <<"os.RemoveAll">>)
               /\ UNCHANGED locks
    /\ UNCHANGED <<storeVars, refVars, extVars, cacheVars, gc>>

InitSideDatabaseReopen(t) ==
    /\ AtSide(t, "reopen")
    /\ SetStore(pc[t].fn, [StoreOf(pc[t].fn) EXCEPT !.open = TRUE])
    /\ gc' = gc \ {StoreName(pc[t].fn)}
    /\ Goto(t, "tables", <<"Close", "sql.Open">>)
    /\ UNCHANGED <<storeVars, refVars, extVars, cacheVars, locks>>

\* initHistoryDBTables / initAssetContentDBTables, then the deferred Unlock.
InitSideDatabaseTables(t) ==
    /\ AtSide(t, "tables")
    /\ SetStore(pc[t].fn, [StoreOf(pc[t].fn) EXCEPT !.file = TRUE, !.tables = TRUE])
    /\ ReturnFrom(t)
    /\ UNCHANGED <<storeVars, refVars, extVars, cacheVars, gc>>

\* CloseDatabase: the three pools are closed one after another, the function
\* returning at the first Close that reports an error (errAt; 0 when none does).
\* A pool is closed even when its Close reports an error.
CloseDatabase(errAt) ==
    /\ proc = "running"
    /\ last = Idle
    /\ AllIdle
    /\ dbOpen' = FALSE
    /\ historyDB' = IF errAt = 1 THEN historyDB ELSE [historyDB EXCEPT !.open = FALSE]
    /\ assetContentDB' = IF errAt \in {1, 2} THEN assetContentDB
                         ELSE [assetContentDB EXCEPT !.open = FALSE]
    /\ gc' = closeDatabase(gc, ClosedStores)
    /\ last' = [op |-> "CloseDatabase", arg |-> errAt, cs |-> caseSensitive,
                ret |-> IF errAt = 0 THEN "nil" ELSE "err", at |-> errAt, err |-> "none",
                issued |-> <<>>, fatal |-> <<>>, committed |-> FALSE, failing |-> 0]
    /\ UNCHANGED <<db, caseSensitive, files, dbVer, proc, exitCode, refVars, extVars, cacheVars, locks, pc>>

\* beginTx, beginHistoryTx, beginAssetContentTx: what Begin answered decides.
beginTx(e) ==
    IF e = "none" THEN [ret |-> "nil", exit |-> FALSE]
    ELSE IF e = Locked THEN [ret |-> "exit", exit |-> TRUE]
         ELSE [ret |-> "err", exit |-> FALSE]

BeginFns == {"beginTx", "beginHistoryTx", "beginAssetContentTx"}

\* A transaction is begun on an open store and Begin fails.
BeginFails(fn, e) ==
    /\ proc = "running"
    /\ last = Idle
    /\ AllIdle
    /\ CASE fn = "beginTx" -> dbOpen
         [] fn = "beginHistoryTx" -> historyDB.open
         [] fn = "beginAssetContentTx" -> assetContentDB.open
    /\ \E r \in {beginTx(e)} :
          /\ proc' = IF r.exit THEN "exited" ELSE proc
          /\ exitCode' = IF r.exit THEN ExitCodeReadOnlyDatabase ELSE exitCode
          /\ last' = [op |-> fn, arg |-> e, cs |-> caseSensitive, ret |-> r.ret, at |-> 0,
                      err |-> e, issued |-> <<>>, fatal |-> <<>>, committed |-> FALSE,
                      failing |-> 0]
    /\ UNCHANGED <<db, caseSensitive, dbOpen, files, dbVer, refVars, extVars, cacheVars, lifeVars>>

\* The kernel has started and no store is opened yet. On disk: nothing, or what a run
\* of this version or of an older one left.
BootTree == CHOOSE tree \in Trees : tree.ID = "r1"
Indexed == Run(insertTree(FALSE, BootTree), 1, initDBTables, NoFault).tx
OnDisk == {[db |-> initDBTables, ver |-> "", files |-> {}],
           [db |-> Indexed, ver |-> DatabaseVer, files |-> DBFiles],
           [db |-> Indexed, ver |-> "old", files |-> DBFiles]}

InitBoot ==
    /\ \E d \in OnDisk : db = d.db /\ dbVer = d.ver /\ files = d.files
    /\ caseSensitive = FALSE
    /\ dbOpen = FALSE
    /\ proc = "running"
    /\ exitCode = ""
    /\ last = Idle
    /\ cache = {}
    /\ pending = NoTx
    /\ \E f \in BOOLEAN : historyDB = [open |-> FALSE, file |-> f, tables |-> f]
    /\ \E f \in BOOLEAN : assetContentDB = [open |-> FALSE, file |-> f, tables |-> f]
    /\ gc = {}
    /\ locks = [l \in LockNames |-> "free"]
    /\ pc = [t \in Threads |-> IdlePC]

InitLife == InitBoot /\ InitRefsIdle /\ InitExtIdle

\* A write meets the malformed image (or none does) while no initialization is under way.
Corrupt == AllIdle /\ DeleteByRootID(Roots, {Malformed}, {TRUE})

NextLife ==
    \/ \E t \in Threads : CallInit(t)
    \/ \E t \in Threads : Acquire(t)
    \/ \E t \in Threads : InitDatabaseOpen(t)
    \/ \E t \in Threads : InitDatabaseCheck(t)
    \/ \E t \in Threads : InitDatabaseClose(t)
    \/ \E t \in Threads : InitDatabaseRemove(t)
    \/ \E t \in Threads : InitDatabaseReopen(t)
    \/ \E t \in Threads : InitDatabaseTables(t)
    \/ \E t \in Threads : InitSideDatabaseOpen(t)
    \/ \E t \in Threads : InitSideDatabaseCheck(t)
    \/ \E t \in Threads : InitSideDatabaseClose(t)
    \/ \E t \in Threads : InitSideDatabaseRemove(t)
    \/ \E t \in Threads : InitSideDatabaseReopen(t)
    \/ \E t \in Threads : InitSideDatabaseTables(t)
    \/ \E errAt \in 0..3 : CloseDatabase(errAt)
    \/ \E fn \in BeginFns, e \in Errs : BeginFails(fn, e)
    \/ Corrupt
    \/ Return

\* The three stores from the start of the kernel on.
SpecLife == InitLife /\ [][NextLife]_vars

----------------------------------------------------------------------------
(* Properties of the store.                                                *)

\* The mutating operations of the code under src.
MutatingOps == {"deleteBlocksByIDs", "deleteByBoxTx", "deleteByRootID", "batchDeleteByRootIDs",
                "batchDeleteByPathPrefix", "batchUpdatePath", "batchUpdateHPath"}

\* The path column of a row: docpath in assets, path elsewhere.
PathOf(t, x) == IF t = "assets" THEN x.docpath ELSE x.path

IsPrefix(p, q) == Len(p) <= Len(q) /\ SubSeq(q, 1, Len(p)) = p

\* The tables whose statements the last operation issued.
Touched(kinds) == {last.issued[i][2] : i \in {j \in DOMAIN last.issued : last.issued[j][1] \in kinds}}

\* The text columns of the block tables, row by row.
TextColumns(T) ==
    [t \in BlockTables |-> {<<x.rowid, x.content, x.fcontent, x.markdown>> : x \in T[t]}]

\* C1: once deleteByRootID(R) has returned nil and its transaction is committed, no
\* table (blocks, both full-text tables, spans, assets, attributes, refs,
\* file_annotation_refs) holds a row whose root is R, whatever the mode when the rows
\* were written and whatever the mode at the deletion.
C1_DeleteByRootIDLeavesNoRow ==
    (last.op = "deleteByRootID" /\ last.committed)
        => \A t \in TableNames : \A x \in db[t] : x.root_id # last.arg

\* C2: after any committed mutating operation every row of spans names a block
\* that is a row of blocks.
C2_SpanHasOwningBlock ==
    (last.op \in MutatingOps \cup {"reindex"} /\ last.committed)
        => \A x \in db["spans"] : \E b \in db["blocks"] : b.id = x.block_id

\* C3: once a deletion by scope is committed (a box, a path prefix in a box, a list
\* of roots), no table holds a row of that scope.
C3_ScopeDeletionLeavesNoRow ==
    /\ (last.op = "deleteByBoxTx" /\ last.committed)
          => \A t \in TableNames : \A x \in db[t] : x.box # last.arg
    /\ (last.op = "batchDeleteByPathPrefix" /\ last.committed)
          => \A t \in TableNames : \A x \in db[t] :
                 ~(x.box = last.arg.box /\ IsPrefix(last.arg.prefix, PathOf(t, x)))
    /\ (last.op = "batchDeleteByRootIDs" /\ last.committed)
          => \A t \in TableNames : \A x \in db[t] : x.root_id \notin last.arg

\* C4: after every committed mutating operation made in case-insensitive mode,
\* blocks_fts and blocks_fts_case_insensitive hold the same number of rows, for
\* every sequence of operations and mode switches before it.
C4_FullTextTablesSameCount ==
    (last.op \in MutatingOps \cup {"reindex"} /\ last.committed /\ ~last.cs)
        => Cardinality(db["blocks_fts"]) = Cardinality(db["blocks_fts_case_insensitive"])

\* C5: a mutating function that runs in case-sensitive mode issues no statement
\* against blocks_fts_case_insensitive; in either mode it issues against blocks_fts
\* the statement it issues against blocks, and in case-insensitive mode it issues it
\* against blocks_fts_case_insensitive too: each function tests the flag.
C5_ModeFlagChecked ==
    (last.op \in MutatingOps)
        => /\ last.cs => "blocks_fts_case_insensitive" \notin Touched({"DELETE", "UPDATE"})
           /\ (last.ret = "nil" /\ "blocks" \in Touched({"DELETE", "UPDATE"}))
                 => /\ "blocks_fts" \in Touched({"DELETE", "UPDATE"})
                    /\ ~last.cs => "blocks_fts_case_insensitive" \in Touched({"DELETE", "UPDATE"})

\* C5 case: batchUpdateHPath has run to its end in case-sensitive mode on a root whose
\* rows are in all three block tables.
C5_Witness ==
    /\ last.op = "batchUpdateHPath"
    /\ last.cs
    /\ last.committed
    /\ "blocks_fts" \in Touched({"UPDATE"})
    /\ \A t \in BlockTables : \E x \in db[t] : x.root_id = last.arg.ID

\* C6: once batchUpdatePath or batchUpdateHPath of a root is committed, every row of
\* that root in blocks and in each populated full-text table carries the new hpath
\* (the new box and path too for batchUpdatePath), and content, fcontent and markdown
\* of every row are what they were.
C6_RenamePropagates ==
    [][(last'.op \in {"batchUpdatePath", "batchUpdateHPath"} /\ last'.committed)
          => /\ \A t \in BlockTables : \A x \in db'[t] :
                    x.root_id = last'.arg.ID
                       => /\ x.hpath = last'.arg.HPath
                          /\ last'.op = "batchUpdatePath"
                                => x.box = last'.arg.Box /\ x.path = last'.arg.Path
             /\ TextColumns(db') = TextColumns(db)]_vars

----------------------------------------------------------------------------
(* Properties of refsFromTree.                                             *)

IsRefNode(n) == n.kind \in {"block-ref", "embed"}

\* The using block and the defining block of a reference node.
PairOf(n) == <<IF n.kind = "embed" THEN n.id ELSE n.parent, n.def>>

\* The first node of the walk that refers from the same using block to the same
\* defining block as node k.
FirstOfPair(k) ==
    CHOOSE f \in 1..k :
        /\ IsRefNode(walk[f]) /\ PairOf(walk[f]) = PairOf(walk[k])
        /\ \A g \in 1..(f - 1) : ~(IsRefNode(walk[g]) /\ PairOf(walk[g]) = PairOf(walk[k]))

\* C7: refsFromTree keeps at most one Ref for a pair of using block and defining
\* block, block references and embed references alike: the one built from the first
\* node of the walk with that pair, and the refs come in the order of first meeting.
C7_OneRefPerPair ==
    /\ \A i, j \in DOMAIN refs :
          (refs[i].BlockID = refs[j].BlockID /\ refs[i].DefBlockID = refs[j].DefBlockID)
             => i = j
    /\ \A i, j \in DOMAIN refs : i < j => refs[i].node < refs[j].node
    /\ \A k \in 1..pos :
          IsRefNode(walk[k])
             => \E i \in DOMAIN refs :
                   /\ <<refs[i].BlockID, refs[i].DefBlockID>> = PairOf(walk[k])
                   /\ refs[i].node = FirstOfPair(k)
    /\ \A i \in DOMAIN refs :
          /\ refs[i].node \in 1..pos
          /\ IsRefNode(walk[refs[i].node])
          /\ <<refs[i].BlockID, refs[i].DefBlockID>> = PairOf(walk[refs[i].node])

\* C7 case: a block reference from A to B, a reference to another block, then an embed
\* from A to B again: the walk is over and two refs are kept.
C7_Witness ==
    /\ Len(walk) = 3
    /\ pos = 3
    /\ walk[1].kind = "block-ref"
    /\ walk[2].kind = "block-ref"
    /\ walk[3].kind = "embed"
    /\ PairOf(walk[1]) = PairOf(walk[3])
    /\ walk[2].parent # walk[1].parent
    /\ walk[2].def = walk[1].def
    /\ Len(refs) = 2

----------------------------------------------------------------------------
(* Properties of the store when statements and commits fail.               *)

AllOps == MutatingOps \cup {"reindex"}

FatalPath == <<"tx.Rollback", "closeDatabase", "removeDatabaseFile", "LogFatalf">>

\* C8: a mutating operation lands all of its changes or none: committed, the store is
\* what all its statements make of it; failed at any statement or at the commit, the
\* store is what it was, or has been removed with its files on the corruption path.
C8_AllOrNothing ==
    [][last'.op \in AllOps
          => \/ /\ last'.committed
                /\ db' = Run(Steps(last'.op, last'.arg, caseSensitive, db), 1, db, NoFault).tx
             \/ /\ ~last'.committed
                /\ db' = db
             \/ /\ ~last'.committed
                /\ last'.ret = "fatal"
                /\ "db" \notin files'
                /\ db' = initDBTables]_vars

\* C8 case: deleteByRootID failed with an ordinary error after it had deleted the
\* root's rows from blocks and blocks_fts, and the rows are all there.
C8_Witness ==
    /\ last.op = "deleteByRootID"
    /\ last.ret = "err"
    /\ last.err = Locked
    /\ last.at >= 3
    /\ \A t \in TableNames \ {"blocks_fts_case_insensitive"} :
          \E x \in db[t] : x.root_id = last.arg

\* C9: when a statement run by execStmtTx answers that the disk image is
\* malformed, the transaction is rolled back, the store closed, its files deleted and
\* the process ended with the reserved exit code, in this order and with no statement
\* after the failing one; no change of the transaction is in the store after restart.
C9_FilesDeleted ==
    [][/\ (last'.op \in AllOps /\ last'.err = Malformed
             /\ last'.issued[last'.at][3] = "execStmtTx")
          => /\ last'.ret = "fatal"
             /\ last'.fatal = FatalPath
             /\ Len(last'.issued) = last'.at
             /\ ~dbOpen'
             /\ proc' = "exited"
             /\ exitCode' = ExitCodeReadOnlyDatabase
             /\ files' \cap DBFiles = {}
             /\ db' = initDBTables
       /\ (proc = "exited" /\ proc' = "running") => (dbOpen' /\ db' \in {db, initDBTables})]_vars

\* C10: a write that answers that the disk image is malformed takes the corruption
\* path whichever function ran it, execStmtTx or prepareExecInsertTx: the process
\* ends with the reserved exit code and the error is never returned as an ordinary one.
C10_CorruptionAlwaysFatal ==
    (last.op \in AllOps /\ last.err = Malformed
       /\ last.issued[last.at][1] \in {"INSERT", "DELETE", "UPDATE"})
        => /\ last.ret = "fatal"
           /\ last.fatal = FatalPath
           /\ proc = "exited"
           /\ exitCode = ExitCodeReadOnlyDatabase

----------------------------------------------------------------------------
(* Properties of the read cache.                                           *)

\* C11: with readers beside a mutating operation, once its transaction is committed
\* a read served from the cache never returns a row version the operation deleted or
\* changed, even when a reader filled the cache between the operation's ClearCache
\* and the commit.
C11_NoStaleCacheRead ==
    (last.op = "getBlock" /\ last.ret = "hit" /\ ~pending.open)
        => last.row \in db["blocks"]

\* C12: every mutating operation that returns nil after it issued a write,
\* deleteBlocksByIDs among them, leaves the read cache empty: the cache is cleared as
\* a whole, never entry by entry.
C12_CacheEmptyAfterMutation ==
    (last.op \in AllOps /\ last.ret = "nil" /\ Touched({"INSERT", "DELETE", "UPDATE"}) # {})
        => cache = {}

----------------------------------------------------------------------------
(* Functions called on their own: the template functions queryBlocks and   *)
(* querySpans, and nSort. A statement and an argument are strings, kept as *)
(* the sequence of their characters.                                       *)

StmtChars == {"?", "s"}
Stmts == UNION {[1..n -> StmtChars] : n \in 0..MaxStmt}
ArgValues == {<<"a">>, <<"?">>, <<"b", "?">>}
ArgLists == UNION {[1..n -> ArgValues] : n \in 0..MaxArgs}

\* strings.Index(s, "?"): 0 stands for -1.
Index(s) == IF \E i \in DOMAIN s : s[i] = "?"
            THEN CHOOSE i \in DOMAIN s : s[i] = "?" /\ \A j \in 1..(i - 1) : s[j] # "?"
            ELSE 0

\* strings.Replace(stmt, "?", arg, 1): the first "?" of stmt, if any, replaced by arg.
Replace(stmt, arg) ==
    IF Index(stmt) = 0 THEN stmt
    ELSE SubSeq(stmt, 1, Index(stmt) - 1) \o arg \o SubSeq(stmt, Index(stmt) + 1, Len(stmt))

\* for _, arg := range args { stmt = strings.Replace(stmt, "?", arg, 1) }
RECURSIVE Substitute(_, _)
Substitute(stmt, args) ==
    IF args = <<>> THEN stmt ELSE Substitute(Replace(stmt, Head(args)), Tail(args))

\* queryBlocks: SelectBlocksRawStmt(stmt, 1, 512) on the substituted statement.
queryBlocks(stmt, args) == [stmt |-> Substitute(stmt, args), page |-> 1, limit |-> 512]

\* querySpans: SelectSpansRawStmt(stmt, 512) on the substituted statement.
querySpans(stmt, args) == [stmt |-> Substitute(stmt, args), page |-> 0, limit |-> 512]

\* ast.Node as nSort reads it: its type and, split at the spaces, its TextMarkType.
BlockTypes == {"NodeDocument", "NodeHeading", "NodeParagraph", "NodeCodeBlock",
               "NodeMathBlock", "NodeTable", "NodeHTMLBlock", "NodeList", "NodeListItem",
               "NodeBlockquote", "NodeSuperBlock", "NodeAttributeView", "NodeIFrame",
               "NodeWidget", "NodeAudio", "NodeVideo", "NodeThematicBreak"}
InlineTypes == {"NodeText", "NodeImage", "NodeInlineHTML", "NodeLinkDest"}
TextMarkTypes == {{"tag"}, {"a"}, {"strong"}, {"tag", "a"}}
SortNodes ==
    [Type : BlockTypes \cup InlineTypes, TextMarkType : {{}}]
    \cup [Type : {"NodeTextMark"}, TextMarkType : TextMarkTypes]

IsTextMarkType(n, typ) == typ \in n.TextMarkType

nSort(n) ==
    CASE n.Type = "NodeHeading" -> 5
      [] n.Type = "NodeParagraph" -> 10
      [] n.Type = "NodeCodeBlock" -> 10
      [] n.Type = "NodeMathBlock" -> 10
      [] n.Type = "NodeTable" -> 10
      [] n.Type = "NodeHTMLBlock" -> 10
      [] n.Type = "NodeList" -> 20
      [] n.Type = "NodeListItem" -> 20
      [] n.Type = "NodeBlockquote" -> 20
      [] n.Type = "NodeSuperBlock" -> 30
      [] n.Type = "NodeAttributeView" -> 30
      [] n.Type = "NodeDocument" -> 0
      [] n.Type \in {"NodeText", "NodeTextMark"} -> IF IsTextMarkType(n, "tag") THEN 205 ELSE 200
      [] OTHER -> 100

\* A template function is called with a statement and arguments.
QueryBlocks ==
    /\ call.fn = "queryBlocks" /\ ~call.done
    /\ call' = [call EXCEPT !.done = TRUE, !.out = queryBlocks(call.stmt, call.args)]
    /\ UNCHANGED <<storeVars, refVars, cacheVars, lifeVars, nodes, gen, out, queue, blockTrees,
                   tabVars>>

QuerySpans ==
    /\ call.fn = "querySpans" /\ ~call.done
    /\ call' = [call EXCEPT !.done = TRUE, !.out = querySpans(call.stmt, call.args)]
    /\ UNCHANGED <<storeVars, refVars, cacheVars, lifeVars, nodes, gen, out, queue, blockTrees,
                   tabVars>>

\* nSort is called on a node.
NSort ==
    /\ call.fn = "nSort" /\ ~call.done
    /\ call' = [call EXCEPT !.done = TRUE, !.out = nSort(call.n)]
    /\ UNCHANGED <<storeVars, refVars, cacheVars, lifeVars, nodes, gen, out, queue, blockTrees,
                   tabVars>>

Calls ==
    [fn : {"queryBlocks", "querySpans"}, stmt : Stmts, args : ArgLists, done : {FALSE},
     out : {<<>>}]
    \cup [fn : {"nSort"}, n : SortNodes, done : {FALSE}, out : {0}]

InitCalls ==
    /\ InitStore /\ InitRefsIdle /\ InitLifeIdle
    /\ InitTabsIdle
    /\ call \in Calls
    /\ nodes = <<>>
    /\ gen = 0
    /\ out = NoRows
    /\ queue = <<>>
    /\ blockTrees = {}

NextCalls == QueryBlocks \/ QuerySpans \/ NSort

SpecCalls == InitCalls /\ [][NextCalls]_vars

\* The statement with its i-th "?" replaced by the i-th argument, for each i up to the
\* number of arguments, and all other text as it was.
RECURSIVE Positional(_, _)
Positional(stmt, args) ==
    IF stmt = <<>> THEN <<>>
    ELSE IF Head(stmt) = "?" /\ args # <<>>
         THEN Head(args) \o Positional(Tail(stmt), Tail(args))
         ELSE <<Head(stmt)>> \o Positional(Tail(stmt), args)

\* C21: queryBlocks and querySpans execute the statement they were given with its
\* i-th "?" replaced by the i-th argument, for every statement and every argument
\* list, arguments that contain "?" included, and all other text unchanged.
C21_PositionalSubstitution ==
    (call.fn \in {"queryBlocks", "querySpans"} /\ call.done)
        => call.out.stmt = Positional(call.stmt, call.args)

\* The weights of the table: document 0; heading 5; paragraph, code block, math block,
\* table, HTML block 10; list, list item, blockquote 20; super block, attribute view
\* 30; plain text 100; text mark of type tag 205; other inline text 200.
SortTable(n) ==
    CASE n.Type = "NodeDocument" -> 0
      [] n.Type = "NodeHeading" -> 5
      [] n.Type \in {"NodeParagraph", "NodeCodeBlock", "NodeMathBlock", "NodeTable",
                     "NodeHTMLBlock"} -> 10
      [] n.Type \in {"NodeList", "NodeListItem", "NodeBlockquote"} -> 20
      [] n.Type \in {"NodeSuperBlock", "NodeAttributeView"} -> 30
      [] n.Type = "NodeText" -> 100
      [] n.Type = "NodeTextMark" -> IF "tag" \in n.TextMarkType THEN 205 ELSE 200

InSortTable(n) ==
    n.Type \in {"NodeDocument", "NodeHeading", "NodeParagraph", "NodeCodeBlock",
                "NodeMathBlock", "NodeTable", "NodeHTMLBlock", "NodeList", "NodeListItem",
                "NodeBlockquote", "NodeSuperBlock", "NodeAttributeView", "NodeText",
                "NodeTextMark"}

\* C23: nSort returns for every node type of the table the weight the table gives it.
C23_SortWeights ==
    (call.fn = "nSort" /\ call.done /\ InSortTable(call.n))
        => call.out = SortTable(call.n)

----------------------------------------------------------------------------
(* fromTree. The document is the sequence of its nodes in the order        *)
(* ast.Walk enters them; parent is the place of a node's parent in that    *)
(* sequence. A node carries what the extraction reads of it: Type, ID,     *)
(* TextMarkType, the link destination (TextMarkAHref, or the tokens of a   *)
(* NodeLinkDest), what html.ParseFragment makes of its tokens, the names   *)
(* of its IAL, its text. An identifier is a tuple: <<"given", i>> for one  *)
(* the tree came with, <<"new", g, k>> for the k-th that ast.NewNodeID     *)
(* minted in the g-th extraction, <<>> for none; the first two elements    *)
(* stand for the 14 digits of its time stamp.                              *)

Zwsp == "zwsp"
RootID == <<"given", 1>>

Template(type, tm, dest, html, ial, text, at) ==
    [Type |-> type, TextMarkType |-> tm, dest |-> dest, html |-> html, ial |-> ial,
     text |-> text, at |-> at]

Custom == <<"custom-", "a">>
DocumentT == Template("NodeDocument", {}, "", "", {<<"id">>, <<"title">>}, <<"t">>, "block")
DocumentZ == Template("NodeDocument", {}, "", "", {<<"id">>, <<"title">>}, <<"t", Zwsp>>, "block")
HeadingT == Template("NodeHeading", {}, "", "", {<<"id">>}, <<"h">>, "block")
ParagraphT == Template("NodeParagraph", {}, "", "", {<<"id">>}, <<"a">>, "block")
ParagraphZ == Template("NodeParagraph", {}, "", "", {<<"id">>}, <<"a", Zwsp>>, "block")
ParagraphC == Template("NodeParagraph", {}, "", "", {<<"id">>, Custom, <<"name">>}, <<"a">>, "block")
BlockquoteT == Template("NodeBlockquote", {}, "", "", {<<"id">>}, <<>>, "block")
BlockIAL(keys) == Template("NodeKramdownBlockIAL", {}, "", "", keys, <<>>, "block")
SpanIAL(keys) == Template("NodeKramdownSpanIAL", {}, "", "", keys, <<>>, "inline")
TextMark(tm, dest, at) == Template("NodeTextMark", {tm}, dest, "", {}, <<"m">>, at)
ImageT == Template("NodeImage", {}, "", "", {}, <<"i">>, "inline")
LinkDest(dest) == Template("NodeLinkDest", {}, dest, "", {}, <<>>, "child")
Html(type, html) ==
    Template(type, {}, "", html, IF type = "NodeInlineHTML" THEN {} ELSE {<<"id">>}, <<>>,
             IF type = "NodeInlineHTML" THEN "inline" ELSE "block")

\* The kinds of nodes the documents are made of, by what the claims are about.
InlineFamily ==
    {HeadingT, ParagraphT, TextMark("tag", "", "inline"), TextMark("a", "asset", "inline"),
     TextMark("a", "other", "inline")}
ImageFamily ==
    {ParagraphT, ImageT, LinkDest("asset"), TextMark("strong", "", "child"),
     TextMark("tag", "", "inline")}
AttrFamily ==
    {ParagraphT, ParagraphC, BlockIAL({<<"id">>, Custom}), SpanIAL({<<"style">>}),
     SpanIAL({<<"parent-style">>})}
HtmlFamily ==
    {Html("NodeHTMLBlock", "none"), Html("NodeHTMLBlock", "src"),
     Html("NodeHTMLBlock", "error"), Html("NodeIFrame", "none"), Html("NodeIFrame", "src"),
     Html("NodeWidget", "none")}
MediaFamily ==
    {ParagraphT, Html("NodeInlineHTML", "none"), Html("NodeInlineHTML", "elem"),
     Html("NodeAudio", "none"), Html("NodeVideo", "none"), Html("NodeVideo", "elem")}
TextFamily == {HeadingT, ParagraphT, ParagraphZ, BlockquoteT}

IsBlock(n) == n.Type \in BlockTypes \cup {"NodeKramdownBlockIAL"}
IsContainerBlock(n) ==
    n.Type \in {"NodeDocument", "NodeBlockquote", "NodeList", "NodeListItem", "NodeSuperBlock"}

Last(S) == IF S = {} THEN 0 ELSE Max(S)

\* Where the i-th node of a sequence of templates hangs.
ParentOf(ts, i) ==
    IF i = 1 THEN 0
    ELSE CASE ts[i].at = "child" -> i - 1
           [] ts[i].at = "inline" -> Last({j \in 1..(i - 1) : IsBlock(ts[j])})
           [] ts[i].at = "block" -> Last({j \in 1..(i - 1) : IsContainerBlock(ts[j])})

\* A tree the parser can have built: inline nodes lie in a heading or a paragraph, a
\* link destination in an image, and the sequence is the order of the walk.
ValidTree(ts) ==
    \A i \in 2..Len(ts) :
        CASE ts[i].at = "child" -> ts[i - 1].Type \in {"NodeImage", "NodeTextMark"}
          [] ts[i].at = "inline" ->
               ts[ParentOf(ts, i)].Type \in {"NodeHeading", "NodeParagraph"}
          [] ts[i].at = "block" -> TRUE

HasID(t) == IsBlock(t) /\ t.Type # "NodeKramdownBlockIAL"

NodesOf(ts) ==
    [i \in 1..Len(ts) |->
        [Type |-> ts[i].Type, TextMarkType |-> ts[i].TextMarkType, dest |-> ts[i].dest,
         html |-> ts[i].html, ial |-> ts[i].ial, text |-> ts[i].text,
         ID |-> IF HasID(ts[i]) THEN <<"given", i>> ELSE <<>>,
         parent |-> ParentOf(ts, i)]]

TreesOf(doc, family) ==
    {NodesOf(<<doc>> \o ts) :
        ts \in {x \in UNION {[1..n -> family] : n \in 0..MaxNodes} :
                   ValidTree(<<doc>> \o x)}}

Documents ==
    TreesOf(DocumentT, InlineFamily) \cup TreesOf(DocumentT, ImageFamily)
    \cup TreesOf(DocumentT, AttrFamily) \cup TreesOf(DocumentT, HtmlFamily)
    \cup TreesOf(DocumentT, MediaFamily) \cup TreesOf(DocumentT, TextFamily)
    \cup TreesOf(DocumentZ, TextFamily)

\* treenode.ParentBlock: the nearest node above with an ID that is a block.
RECURSIVE ParentBlock(_, _)
ParentBlock(ns, i) ==
    LET p == ns[i].parent IN
    IF p = 0 THEN 0
    ELSE IF ns[p].ID # <<>> /\ IsBlock(ns[p]) THEN p ELSE ParentBlock(ns, p)

ParentBlockID(ns, i) == IF ParentBlock(ns, i) = 0 THEN <<>> ELSE ns[ParentBlock(ns, i)].ID

RECURSIVE Under(_, _, _)
Under(ns, j, i) ==
    /\ ns[j].parent # 0
    /\ ns[j].parent = i \/ Under(ns, ns[j].parent, i)

\* treenode.FirstLeafBlock and NodeStaticContent: the text of a leaf block is its own,
\* the text of a container that of the leaf blocks in it.
LeafBlocksIn(ns, i) ==
    {j \in DOMAIN ns : Under(ns, j, i) /\ HasID(ns[j]) /\ ~IsContainerBlock(ns[j])}
FirstLeafBlock(ns, i) ==
    IF IsContainerBlock(ns[i]) /\ LeafBlocksIn(ns, i) # {}
    THEN CHOOSE j \in LeafBlocksIn(ns, i) : \A k \in LeafBlocksIn(ns, i) : j <= k
    ELSE i
RECURSIVE Concat(_, _, _)
Concat(ns, S, from) ==
    IF \A j \in S : j < from THEN <<>>
    ELSE IF from \in S THEN ns[from].text \o Concat(ns, S, from + 1)
         ELSE Concat(ns, S, from + 1)
NodeStaticContent(ns, i) ==
    IF IsContainerBlock(ns[i]) THEN Concat(ns, LeafBlocksIn(ns, i), 1) ELSE ns[i].text

\* treenode.HeadingParent: the heading a block lies below, if any.
HeadingParent(ns, i) ==
    Last({j \in 1..(i - 1) : ns[j].Type = "NodeHeading" /\ ns[j].parent = ns[i].parent})

\* strings.ReplaceAll(s, editor.Zwsp, "")
StripZwsp(text) == SelectSeq(text, LAMBDA c : c # Zwsp)

\* utf8.RuneCountInString
RuneCount(text) == Len(text)

TypeAbbr(type) == <<"abbr", type>>

\* ast.NodeType.String(): the full name of a node type.
TypeString(type) == <<"name", type>>

\* isAttr that lets every name through.
isAttrAny(name) == TRUE

\* isAttr: the names of the IAL that are kept as attributes.
isAttr(name) ==
    \/ Head(name) = "custom-"
    \/ name \in {<<"name">>, <<"alias">>, <<"memo">>, <<"bookmark">>, <<"fold">>,
                 <<"heading-fold">>, <<"style">>}

\* The attributes made of the names of an IAL, with identifiers minted from k + 1 on.
Attributes(keys, typ, blockID, i, g, k) ==
    LET ks == SeqOfSet({x \in keys : isAttr(x)}) IN
    [j \in 1..Len(ks) |->
        [id |-> <<"new", g, k + j>>, name |-> ks[j], type |-> typ, block_id |-> blockID,
         root_id |-> RootID, node |-> i]]

\* buildAttributeFromNode that treats a span-level IAL as a block-level one.
buildAttributeFromNodeAsBlock(ns, i, g, k) ==
    IF ns[i].Type \in {"NodeKramdownSpanIAL", "NodeKramdownBlockIAL"}
    THEN Attributes(ns[i].ial, "b", ns[i].ID, i, g, k)
    ELSE <<>>

buildAttributeFromNode(ns, i, g, k) ==
    CASE ns[i].Type = "NodeKramdownSpanIAL" ->
           Attributes(ns[i].ial, "s", ParentBlockID(ns, i), i, g, k)
      [] ns[i].Type = "NodeKramdownBlockIAL" -> Attributes(ns[i].ial, "b", ns[i].ID, i, g, k)
      [] OTHER -> <<>>

\* n.ID[:14] and util.TimeFromID(n.ID): the time stamp of an identifier.
TimeFromID(id) == SubSeq(id, 1, 2)

\* parentID that is the structural parent under a heading too.
parentIDStructural(ns, i) ==
    IF ns[i].Type = "NodeDocument" THEN <<>> ELSE ns[ns[i].parent].ID

\* parentID of buildBlockFromNode: none for the document; else the ID of n.Parent, or
\* of the heading treenode.HeadingParent answers.
parentID(ns, i) ==
    IF ns[i].Type = "NodeDocument" THEN <<>>
    ELSE IF HeadingParent(ns, i) # 0 THEN ns[HeadingParent(ns, i)].ID
         ELSE ns[ns[i].parent].ID

\* buildBlockFromNode on the i-th node: the block and the attributes of its IAL.
buildBlockFromNodeAt(ns, i, g, k) ==
    LET n == ns[i]
        text == CASE n.Type = "NodeDocument" ->
                       [content |-> n.text, fcontent |-> n.text,
                        length |-> RuneCount(n.text)]
                  [] n.Type # "NodeDocument" /\ IsContainerBlock(n) ->
                       [content |-> NodeStaticContent(ns, i),
                        fcontent |-> IF FirstLeafBlock(ns, i) = i THEN <<>>
                                     ELSE NodeStaticContent(ns, FirstLeafBlock(ns, i)),
                        length |-> RuneCount(IF FirstLeafBlock(ns, i) = i THEN <<>>
                                             ELSE NodeStaticContent(ns, FirstLeafBlock(ns, i)))]
                  [] OTHER ->
                       [content |-> NodeStaticContent(ns, i), fcontent |-> <<>>,
                        length |-> RuneCount(NodeStaticContent(ns, i))]
    IN [block |-> [id |-> n.ID, parent_id |-> parentID(ns, i), root_id |-> RootID,
                   content |-> StripZwsp(text.content), fcontent |-> StripZwsp(text.fcontent),
                   length |-> text.length, type |-> TypeAbbr(n.Type),
                   sort |-> nSort(n),
                   updated |-> IF <<"updated">> \in n.ial THEN TimeFromID(n.ID) ELSE <<>>,
                   node |-> i],
        attributes |-> Attributes(n.ial, "b", n.ID, i, g, k)]

IsAssetLinkDest(dest) == dest = "asset"

\* An html-like node with nothing to render that is dropped, whatever its type.
NothingToRenderAny(n) == n.html = "none"

\* Lines 735-736: nothing was parsed and the node is no HTML block.
NothingToRender(n) == n.html = "none" /\ n.Type # "NodeHTMLBlock"

HtmlTypes == {"NodeInlineHTML", "NodeHTMLBlock", "NodeIFrame", "NodeWidget", "NodeAudio",
              "NodeVideo"}

\* A walk that goes on into the children of every node.
walkStatusNoSkip(n) ==
    IF n.Type \in HtmlTypes \cup {"NodeImage", "NodeTextMark"} THEN "WalkContinue" ELSE "-1"

\* A walkStatus that is left at -1 by the branch of the HTML-like nodes.
walkStatusHtmlUnset(n) ==
    IF n.Type \in {"NodeImage", "NodeTextMark"} THEN "WalkSkipChildren" ELSE "-1"

\* The walkStatus buildSpanFromNode returns.
walkStatus(n) ==
    CASE n.Type \in {"NodeImage", "NodeTextMark"} -> "WalkSkipChildren"
      [] n.Type \in HtmlTypes ->
           IF n.html = "error" \/ NothingToRender(n) \/ n.Type = "NodeInlineHTML"
              \/ n.html # "src"
           THEN "WalkContinue" ELSE "WalkSkipChildren"
      [] OTHER -> "-1"

Span(ns, i, typ, g, k) ==
    [id |-> <<"new", g, k + 1>>, block_id |-> ParentBlockID(ns, i), root_id |-> RootID,
     content |-> ns[i].text, type |-> typ, node |-> i]

Asset(blockID, i, g, k) ==
    [id |-> <<"new", g, k + 1>>, block_id |-> blockID, root_id |-> RootID,
     path |-> "assets/a.png", node |-> i]

\* n.ChildByType(ast.NodeLinkDest) with a destination that is an asset [lines 627-636].
AssetDestOf(ns, i) ==
    \E j \in DOMAIN ns :
        ns[j].parent = i /\ ns[j].Type = "NodeLinkDest" /\ IsAssetLinkDest(ns[j].dest)

\* buildSpanFromNode on the i-th node: what it appends, the tree as it leaves it (an
\* inline HTML node is given an ID), and the number of identifiers minted so far.
buildSpanFromNode(ns, i, g, k) ==
    LET n == ns[i]
        none == [nodes |-> ns, blocks |-> <<>>, spans |-> <<>>, assets |-> <<>>,
                 attributes |-> <<>>, k |-> k]
    IN CASE n.Type = "NodeImage" ->
              [none EXCEPT !.spans = <<Span(ns, i, TypeAbbr(n.Type), g, k)>>,
                           !.assets = IF AssetDestOf(ns, i)
                                      THEN <<Asset(ParentBlockID(ns, i), i, g, k + 1)>>
                                      ELSE <<>>,
                           !.k = IF AssetDestOf(ns, i) THEN k + 2 ELSE k + 1]
         [] n.Type = "NodeTextMark" ->
              [none EXCEPT !.spans = <<Span(ns, i, <<TypeAbbr(n.Type), n.TextMarkType>>, g, k)>>,
                           !.assets = IF IsTextMarkType(n, "a") /\ IsAssetLinkDest(n.dest)
                                      THEN <<Asset(ParentBlockID(ns, i), i, g, k + 1)>>
                                      ELSE <<>>,
                           !.k = IF IsTextMarkType(n, "a") /\ IsAssetLinkDest(n.dest)
                                 THEN k + 2 ELSE k + 1]
         [] n.Type \in HtmlTypes ->
              IF n.html = "error" \/ NothingToRender(n) THEN none
              ELSE IF n.Type = "NodeInlineHTML"
                   THEN LET id == <<"new", g, k + 1>>
                            ns2 == [ns EXCEPT ![i].ID = id,
                                              ![i].ial = @ \cup {<<"id">>, <<"updated">>}]
                            b == buildBlockFromNodeAt(ns2, i, g, k + 1)
                        IN [none EXCEPT !.nodes = ns2,
                                        !.blocks = <<[b.block EXCEPT
                                                        !.type = TypeString("NodeHTMLBlock")]>>,
                                        !.attributes = b.attributes,
                                        !.k = k + 1 + Len(b.attributes)]
                   ELSE LET b == buildBlockFromNodeAt(ns, i, g, k)
                            k2 == k + Len(b.attributes)
                        IN [none EXCEPT !.blocks = <<b.block>>,
                                        !.attributes = b.attributes,
                                        !.assets = IF n.html = "src"
                                                   THEN <<Asset(n.ID, i, g, k2)>> ELSE <<>>,
                                        !.k = IF n.html = "src" THEN k2 + 1 ELSE k2]
         [] OTHER -> none

\* The callback of ast.Walk in fromTree, entering the i-th node.
Enter(acc, i, g) ==
    LET s == buildSpanFromNode(acc.nodes, i, g, acc.k)
        ns == s.nodes
        attrs == buildAttributeFromNode(ns, i, g, s.k)
        k2 == s.k + Len(attrs)
        b == buildBlockFromNodeAt(ns, i, g, k2)
        block == walkStatus(ns[i]) = "-1" /\ ns[i].ID # <<>> /\ IsBlock(ns[i])
    IN [nodes |-> ns,
        blocks |-> acc.blocks \o s.blocks \o (IF block THEN <<b.block>> ELSE <<>>),
        spans |-> acc.spans \o s.spans,
        assets |-> acc.assets \o s.assets,
        attributes |-> acc.attributes \o s.attributes \o attrs
                       \o (IF block THEN b.attributes ELSE <<>>),
        k |-> IF block THEN k2 + Len(b.attributes) ELSE k2]

\* ast.Walk does not enter the nodes below one whose callback returned WalkSkipChildren.
RECURSIVE Entered(_, _)
Entered(ns, i) ==
    \/ ns[i].parent = 0
    \/ /\ walkStatus(ns[ns[i].parent]) # "WalkSkipChildren"
       /\ Entered(ns, ns[i].parent)

RECURSIVE Walk(_, _, _)
Walk(acc, i, g) ==
    IF i > Len(acc.nodes) THEN acc
    ELSE Walk(IF Entered(acc.nodes, i) THEN Enter(acc, i, g) ELSE acc, i + 1, g)

\* fromTree(tree.Root, tree), the g-th extraction of the document.
fromTree(ns, g) ==
    Walk([nodes |-> ns, blocks |-> <<>>, spans |-> <<>>, assets |-> <<>>,
          attributes |-> <<>>, k |-> 0], 1, g)

Range(q) == {q[i] : i \in DOMAIN q}

\* The rows of an extraction written to the tables they belong to.
insertRows(cs, T, rows) ==
    [t \in TableNames |->
        CASE t \in {"blocks", "blocks_fts"} -> T[t] \cup Range(rows.blocks)
          [] t = "blocks_fts_case_insensitive" ->
               IF cs THEN T[t] ELSE T[t] \cup Range(rows.blocks)
          [] t = "spans" -> T[t] \cup Range(rows.spans)
          [] t = "assets" -> T[t] \cup Range(rows.assets)
          [] t = "attributes" -> T[t] \cup Range(rows.attributes)
          [] OTHER -> T[t]]

\* The document is indexed anew: the rows of its root deleted by deleteByRootID, the
\* tree extracted by fromTree, the rows inserted.
IndexTree ==
    /\ gen < MaxIndex
    /\ \E r \in {fromTree(nodes, gen + 1)} :
          /\ nodes' = r.nodes
          /\ out' = [blocks |-> r.blocks, spans |-> r.spans, assets |-> r.assets,
                     attributes |-> r.attributes]
          /\ db' = insertRows(caseSensitive,
                              Run(deleteByRootID(caseSensitive, RootID), 1, db, NoFault).tx,
                              out')
    /\ gen' = gen + 1
    /\ UNCHANGED <<caseSensitive, dbOpen, files, dbVer, proc, exitCode, last, refVars,
                   cacheVars, lifeVars, call, queue, blockTrees, tabVars>>

InitTree ==
    /\ InitStore /\ InitRefsIdle /\ InitLifeIdle
    /\ InitTabsIdle
    /\ call = NoCall
    /\ nodes \in Documents
    /\ gen = 0
    /\ out = NoRows
    /\ queue = <<>>
    /\ blockTrees = {}

NextTree == IndexTree

SpecTree == InitTree /\ [][NextTree]_vars

\* C22: the length of every block built is the rune count of the text it stores,
\* zero-width markers stripped: of fcontent for the document and for container
\* blocks, of content for leaf blocks.
C22_LengthIsRuneCount ==
    \A j \in DOMAIN out.blocks :
        out.blocks[j].length =
            RuneCount(IF IsContainerBlock(nodes[out.blocks[j].node])
                      THEN out.blocks[j].fcontent ELSE out.blocks[j].content)

\* A row with the identifiers minted by the extraction, and the time stamps cut from
\* them, made one.
Anon(row) ==
    [f \in DOMAIN row |->
        IF f \in {"id", "block_id", "parent_id", "updated"}
        THEN IF row[f] # <<>> /\ row[f][1] = "new" THEN <<"new">> ELSE row[f]
        ELSE row[f]]

\* C24: indexing the same tree again with no edit in between leaves in blocks, spans,
\* assets and attributes the rows the first indexing left, as many of them and the
\* same ones once the identifiers minted by the extractions are ignored: what the
\* first extraction did to the tree does not alter the second.
C24_ReindexIdempotent ==
    [][(gen >= 1 /\ gen' = gen + 1)
          => \A t \in {"blocks", "spans", "assets", "attributes"} :
                /\ {Anon(r) : r \in db'[t]} = {Anon(r) : r \in db[t]}
                /\ Cardinality(db'[t]) = Cardinality(db[t])]_vars

\* C24 case: a document with a paragraph and an inline HTML node, which the first
\* extraction gave an ID, has been indexed twice.
C24_Witness ==
    /\ gen = 2
    /\ \E i \in DOMAIN nodes :
          nodes[i].Type = "NodeInlineHTML" /\ nodes[i].ID # <<>> /\ nodes[i].ID[2] = 2
    /\ Cardinality(db["blocks"]) >= 3

\* The document of the example: a heading and a paragraph that holds a tag text mark
\* and a link text mark to an asset.
IsExample(ns) ==
    /\ Len(ns) = 5
    /\ [i \in 1..5 |-> ns[i].Type]
          = <<"NodeDocument", "NodeHeading", "NodeParagraph", "NodeTextMark", "NodeTextMark">>
    /\ {ns[4].TextMarkType, ns[5].TextMarkType} = {{"tag"}, {"a"}}
    /\ \A i \in {4, 5} : ns[i].TextMarkType = {"a"} => ns[i].dest = "asset"

\* The names of the IAL that make an attribute.
AllowListed(name) ==
    \/ name[1] = "custom-"
    \/ name \in {<<"name">>, <<"alias">>, <<"memo">>, <<"bookmark">>, <<"fold">>,
                 <<"heading-fold">>, <<"style">>}

\* C25: the extraction of a document made of a heading and a paragraph with a tag
\* text mark and a link text mark to an asset returns exactly three blocks (document,
\* heading, paragraph), exactly two spans (tag, link) and exactly one asset; an
\* attribute is returned only for an allow-listed name of an IAL, so none when no
\* IAL of the document holds one.
C25_ExampleCounts ==
    gen >= 1
        => /\ IsExample(nodes)
                 => /\ [j \in DOMAIN out.blocks |-> out.blocks[j].type]
                          = <<TypeAbbr("NodeDocument"), TypeAbbr("NodeHeading"),
                              TypeAbbr("NodeParagraph")>>
                    /\ Len(out.spans) = 2
                    /\ {out.spans[j].type[2] : j \in DOMAIN out.spans} = {{"tag"}, {"a"}}
                    /\ Len(out.assets) = 1
                    /\ out.attributes = <<>>
           /\ \A j \in DOMAIN out.attributes : AllowListed(out.attributes[j].name)
           /\ (\A i \in DOMAIN nodes : \A name \in nodes[i].ial : ~AllowListed(name))
                 => out.attributes = <<>>

\* C25 case: the document of the example has been extracted.
C25_Witness ==
    /\ gen = 1
    /\ IsExample(nodes)
    /\ Len(out.blocks) = 3

\* What the i-th node contributed to one of the four results.
From(rows, i) == {j \in DOMAIN rows : rows[j].node = i}

\* The node lies inside an image or a text mark.
UnderSpan(ns, j) ==
    \E i \in DOMAIN ns : Under(ns, j, i) /\ ns[i].Type \in {"NodeImage", "NodeTextMark"}

\* C29: every image node and every text mark node the walk comes to yields exactly
\* one span, whose block is the parent block of the node, and no block or attribute;
\* the walk does not go below it: a node inside an image or a text mark contributes
\* no span, block, asset or attribute of its own.
C29_SpansAreAtomic ==
    gen >= 1
        => \A i \in DOMAIN nodes :
              /\ (nodes[i].Type \in {"NodeImage", "NodeTextMark"} /\ ~UnderSpan(nodes, i))
                    => /\ Cardinality(From(out.spans, i)) = 1
                       /\ \A j \in From(out.spans, i) :
                             out.spans[j].block_id = ParentBlockID(nodes, i)
                       /\ From(out.blocks, i) = {}
                       /\ From(out.attributes, i) = {}
              /\ UnderSpan(nodes, i)
                    => /\ From(out.spans, i) = {}
                       /\ From(out.blocks, i) = {}
                       /\ From(out.assets, i) = {}
                       /\ From(out.attributes, i) = {}

\* C29 case: a paragraph holds an image with a text mark inside it, and the document
\* has been extracted: the image gave the one span.
C29_Witness ==
    /\ gen >= 1
    /\ \E i, k \in DOMAIN nodes :
          /\ nodes[i].Type = "NodeImage"
          /\ nodes[k].Type = "NodeTextMark" /\ nodes[k].parent = i
          /\ From(out.spans, i) # {}
    /\ Len(out.spans) = 1

\* C30: an iframe, widget, audio, video or inline HTML node whose markup parses to no
\* element contributes no block, span, asset or attribute; an HTML block whose markup
\* parses to no element contributes its block.
C30_EmptyMarkup ==
    gen >= 1
        => \A i \in DOMAIN nodes :
              /\ (nodes[i].html = "none"
                  /\ nodes[i].Type \in {"NodeIFrame", "NodeWidget", "NodeAudio", "NodeVideo",
                                        "NodeInlineHTML"})
                    => /\ From(out.blocks, i) = {}
                       /\ From(out.spans, i) = {}
                       /\ From(out.assets, i) = {}
                       /\ From(out.attributes, i) = {}
              /\ (nodes[i].html = "none" /\ nodes[i].Type = "NodeHTMLBlock")
                    => /\ Cardinality(From(out.blocks, i)) = 1
                       /\ \A j \in From(out.blocks, i) : out.blocks[j].id = nodes[i].ID

\* C30 case: a document with an empty HTML block and an empty iframe has been
\* extracted: its blocks are the document and the HTML block.
C30_Witness ==
    /\ gen >= 1
    /\ \E i, j \in DOMAIN nodes :
          /\ nodes[i].Type = "NodeHTMLBlock" /\ nodes[i].html = "none"
          /\ nodes[j].Type = "NodeIFrame" /\ nodes[j].html = "none"
    /\ Len(nodes) = 3
    /\ Len(out.blocks) = 2

\* C31: an inline HTML node whose markup holds an element is made a block by the
\* extraction: the node gets a newly minted identifier, exactly one block is returned
\* for it, with that identifier, with the time stamp of the identifier as its updated
\* value, and with the type an HTML block node gets.
C31_InlineHTMLPromoted ==
    gen >= 1
        => \A i \in DOMAIN nodes :
              (nodes[i].Type = "NodeInlineHTML" /\ nodes[i].html \notin {"none", "error"})
                 => /\ nodes[i].ID = <<"new", gen, nodes[i].ID[3]>>
                    /\ Cardinality(From(out.blocks, i)) = 1
                    /\ \A j \in From(out.blocks, i) :
                          /\ out.blocks[j].id = nodes[i].ID
                          /\ out.blocks[j].updated = TimeFromID(nodes[i].ID)
                          /\ \A h \in DOMAIN out.blocks :
                                nodes[out.blocks[h].node].Type = "NodeHTMLBlock"
                                   => out.blocks[j].type = out.blocks[h].type
                          /\ out.blocks[j].type = TypeAbbr("NodeHTMLBlock")

\* C32: every attribute an extraction returns has an allow-listed name (prefix
\* custom-, or name, alias, memo, bookmark, fold, heading-fold, style) that the IAL of
\* its node holds; an attribute of a span-level IAL has type "s" and the parent block
\* of the IAL as its block, an attribute of a block-level IAL or of the IAL of a block
\* has type "b"; no attribute is made of another name of an IAL, such as id or updated.
C32_AttributesAllowListed ==
    gen >= 1
        => /\ \A j \in DOMAIN out.attributes :
                 \E a \in {out.attributes[j]} :
                    /\ AllowListed(a.name)
                    /\ a.name \in nodes[a.node].ial
                    /\ IF nodes[a.node].Type = "NodeKramdownSpanIAL"
                       THEN a.type = "s" /\ a.block_id = ParentBlockID(nodes, a.node)
                       ELSE a.type = "b" /\ a.block_id = nodes[a.node].ID
           /\ \A i \in DOMAIN nodes :
                 \A name \in nodes[i].ial :
                    ~AllowListed(name)
                       => ~\E j \in From(out.attributes, i) : out.attributes[j].name = name

\* C32 case: a document whose paragraph carries id, a custom- name and name, with a
\* span-level IAL that holds style, has been extracted: attributes of both types
\* were returned.
C32_Witness ==
    /\ gen >= 1
    /\ \E i \in DOMAIN nodes : nodes[i].ial = {<<"id">>, Custom, <<"name">>}
    /\ \E j, h \in DOMAIN out.attributes :
          /\ out.attributes[j].type = "s" /\ out.attributes[j].name = <<"style">>
          /\ out.attributes[h].type = "b" /\ out.attributes[h].name = Custom

\* The heading that claims the i-th node: the nearest heading before it under the
\* same parent.
ClaimingHeading(ns, i) ==
    {j \in 1..(i - 1) :
        /\ ns[j].Type = "NodeHeading" /\ ns[j].parent = ns[i].parent
        /\ \A h \in (j + 1)..(i - 1) :
              ~(ns[h].Type = "NodeHeading" /\ ns[h].parent = ns[i].parent)}

\* C33: the parent_id of the block of a node other than the document is the id of the
\* heading that claims the node when there is one, and the id of the node's structural
\* parent otherwise; the block of the document has an empty parent_id; every block of
\* an extraction has the id of the root of the tree as its root_id.
C33_ParentAndRoot ==
    gen >= 1
        => \A j \in DOMAIN out.blocks :
              \E b \in {out.blocks[j]} :
                 /\ b.root_id = nodes[1].ID
                 /\ nodes[b.node].Type = "NodeDocument" => b.parent_id = <<>>
                 /\ nodes[b.node].Type # "NodeDocument"
                       => /\ \A h \in ClaimingHeading(nodes, b.node) : b.parent_id = nodes[h].ID
                          /\ ClaimingHeading(nodes, b.node) = {}
                                => b.parent_id = nodes[nodes[b.node].parent].ID

\* C33 case: a document with a paragraph, a heading and a paragraph after the heading
\* has been extracted: the first paragraph hangs on the document, the second on the
\* heading.
C33_Witness ==
    /\ gen >= 1
    /\ Len(nodes) = 4
    /\ [i \in 1..4 |-> nodes[i].Type]
          = <<"NodeDocument", "NodeParagraph", "NodeHeading", "NodeParagraph">>
    /\ Len(out.blocks) = 4
    /\ out.blocks[2].parent_id = nodes[1].ID
    /\ out.blocks[4].parent_id = nodes[3].ID

\* The node is HTML-like and its markup failed to parse, or parsed to no element while
\* the node is no HTML block.
DroppedMarkup(n) ==
    /\ n.Type \in {"NodeInlineHTML", "NodeHTMLBlock", "NodeIFrame", "NodeWidget", "NodeAudio",
                    "NodeVideo"}
    /\ n.html = "error" \/ (n.html = "none" /\ n.Type # "NodeHTMLBlock")

\* C37 as stated: in one extraction no node contributes more than one block, and every
\* block-level node with an id that does not lie inside an image or a text mark
\* contributes exactly one.
C37_EveryBlockNodeOnce ==
    gen >= 1
        => \A i \in DOMAIN nodes :
              /\ Cardinality(From(out.blocks, i)) <= 1
              /\ (IsBlock(nodes[i]) /\ nodes[i].ID # <<>> /\ ~UnderSpan(nodes, i))
                    => Cardinality(From(out.blocks, i)) = 1

\* C37: in one extraction no node contributes more than one block: an HTML block,
\* iframe, widget, audio, video or inline HTML node that buildSpanFromNode made a
\* block of is not built again by fromTree; every block-level node with an id that
\* does not lie inside an image or a text mark contributes exactly one block, unless
\* it is an HTML-like node whose markup failed to parse or, the HTML block apart,
\* parsed to no element: such a node contributes none.
C37_OneBlockPerNode ==
    gen >= 1
        => \A i \in DOMAIN nodes :
              /\ Cardinality(From(out.blocks, i)) <= 1
              /\ (IsBlock(nodes[i]) /\ nodes[i].ID # <<>> /\ ~UnderSpan(nodes, i))
                    => Cardinality(From(out.blocks, i))
                          = IF DroppedMarkup(nodes[i]) THEN 0 ELSE 1

\* C37 case: a document with an HTML block that holds an element with a source, an
\* empty HTML block and an empty iframe has been extracted: three blocks, none of
\* them of the iframe.
C37_Witness ==
    /\ gen >= 1
    /\ Len(nodes) = 4
    /\ \E i, j, h \in DOMAIN nodes :
          /\ nodes[i].Type = "NodeHTMLBlock" /\ nodes[i].html = "src"
          /\ nodes[j].Type = "NodeHTMLBlock" /\ nodes[j].html = "none"
          /\ nodes[h].Type = "NodeIFrame" /\ nodes[h].html = "none"
          /\ Cardinality(From(out.blocks, i)) = 1
          /\ From(out.blocks, h) = {}
    /\ Len(out.blocks) = 3

----------------------------------------------------------------------------
(* Properties of the life of the stores.                                   *)

\* A caller holds the mutex of its initialization.
InCS(t) == pc[t].step \notin {"idle", "Lock"}

\* C13: for each store at most one initialization is in flight: two callers are never
\* both between Lock and Unlock of the same initialization, so their close, delete,
\* reopen and create steps never interleave; the three mutexes are distinct, a mutex
\* is held by the caller inside its initialization and by nobody else, and a caller
\* that waits for a mutex holds none, so initializations of different stores cannot
\* deadlock each other.
C13_OneInitInFlight ==
    /\ \A t1, t2 \in Threads :
          (t1 # t2 /\ InCS(t1) /\ InCS(t2)) => pc[t1].fn # pc[t2].fn
    /\ \A t \in Threads : InCS(t) => locks[LockOf(pc[t].fn)] = t
    /\ \A l \in LockNames :
          locks[l] # "free" => (InCS(locks[l]) /\ LockOf(pc[locks[l]].fn) = l)
    /\ \A t \in Threads : pc[t].step = "Lock" => \A l \in LockNames : locks[l] # t
    /\ \A f1, f2 \in InitFns : f1 # f2 => LockOf(f1) # LockOf(f2)

\* C13 case: one caller is deleting the files in InitDatabase while the other has
\* called InitDatabase too and waits at the Lock.
C13_Witness ==
    \E t1, t2 \in Threads :
        /\ pc[t1].fn = "InitDatabase" /\ pc[t1].step = "remove"
        /\ pc[t2].fn = "InitDatabase" /\ pc[t2].step = "Lock"

\* C14: InitDatabase(false) on a store whose persisted version is the expected one
\* changes nothing in the store: at each of its steps the rows and tables, the files
\* and the version are what they were, the connection is open, and it returns right
\* after the version check.
C14_NoOpOnVersionMatch ==
    [][\A t \in Threads :
          (/\ pc[t].fn = "InitDatabase" /\ ~pc[t].force /\ dbVer = DatabaseVer
           /\ pc[t].step \in {"open", "check"} /\ pc'[t] # pc[t])
             => /\ db' = db /\ files' = files /\ dbVer' = dbVer
                /\ dbOpen'
                /\ pc[t].step = "check" => pc'[t] = IdlePC]_vars

\* C14 case: InitDatabase(false) has opened the connection of a store that holds rows
\* and the expected version, and is at the version check.
C14_Witness ==
    \E t \in Threads :
        /\ pc[t].fn = "InitDatabase" /\ ~pc[t].force /\ pc[t].step = "check"
        /\ dbVer = DatabaseVer
        /\ db = Indexed
        /\ files = DBFiles
        /\ dbOpen

\* The calls InitDatabase makes on its rebuild path after the version check.
RebuildCalls ==
    {<<"closeDatabase", "removeDatabaseFile", "closeDatabase", "sql.Open">>,
     <<"closeDatabase", "removeDatabaseFile: error", "closeDatabase", "sql.Open">>,
     <<"closeDatabase", "closeDatabase", "sql.Open">>}

C16_VersionResolvedAtInit ==
    [][/\ \A t \in Threads :
             (pc[t].fn = "InitDatabase" /\ InCS(t) /\ pc'[t] = IdlePC)
                => dbOpen' /\ dbVer' = DatabaseVer
       /\ (dbOpen' /\ \A t \in Threads : ~(pc'[t].fn = "InitDatabase" /\ pc'[t].step \notin {"idle", "Lock"}))
             => dbVer' = DatabaseVer]_vars

\* C16 case: InitDatabase is over, the store is open, rebuilt and empty, with the
\* expected version, and no initialization is under way.
C16_Witness ==
    /\ AllIdle
    /\ dbOpen
    /\ dbVer = DatabaseVer
    /\ db = initDBTables
    /\ files = DBFiles
    /\ locks["initDatabaseLock"] = "free"

\* C17: after CloseDatabase has returned, the connections of the three stores are
\* released, on every path, also when closing one of them reported an error.
C17_AllStoresReleased ==
    [][(last'.op = "CloseDatabase" /\ last' # last)
          => (~dbOpen' /\ ~historyDB'.open /\ ~assetContentDB'.open)]_vars

\* C18: whenever the files of a store are deleted, the connection of that store was
\* closed and a garbage-collection pass was forced after the close and before the
\* deletion; and CloseDatabase forces such a pass before it returns.
C18_ClosedAndCollectedBeforeDelete ==
    [][/\ (files' # files /\ files' \subseteq files)
             => IF last' # last /\ last'.ret = "fatal"
                THEN last'.fatal = FatalPath /\ ~dbOpen' /\ "db" \in gc'
                ELSE ~dbOpen /\ "db" \in gc
       /\ (historyDB.file /\ ~historyDB'.file)
             => (~historyDB.open /\ "history" \in gc)
       /\ (assetContentDB.file /\ ~assetContentDB'.file)
             => (~assetContentDB.open /\ "asset" \in gc)
       /\ (last'.op = "CloseDatabase" /\ last' # last) => "db" \in gc']_vars

\* C19: a begin that fails because the store is locked is an error of that one
\* operation, returned to its caller, and the process keeps running.
C19_LockedBeginIsAnError ==
    (last.op \in BeginFns /\ last.err = Locked)
        => (last.ret = "err" /\ proc = "running")

\* C20: a deleteBlocksByIDs that succeeds removes from the blocks table and from the
\* full-text tables exactly the rows whose block id is in ids, and no other row of
\* any table; when ids is empty or no row has one of the ids it issues no DELETE.
C20_DeletesExactlyTheIds ==
    [][(last'.op = "deleteBlocksByIDs" /\ last' # last /\ last'.ret = "nil")
          => /\ \A t \in BlockTables : db'[t] = {r \in db[t] : r.id \notin last'.arg}
             /\ \A t \in TableNames \ BlockTables : db'[t] = db[t]
             /\ (\A r \in db["blocks"] : r.id \notin last'.arg)
                   => \A i \in DOMAIN last'.issued : last'.issued[i][1] # "DELETE"]_vars

\* C36: whenever InitHistoryDatabase or InitAssetContentDatabase returns, on every
\* path, the one where the old file could not be removed included, the store it
\* initializes is open; and when the call rebuilt the store, the full-text table of
\* the store exists.
C36_SideStoreOpenOnReturn ==
    [][\A t \in Threads :
          (pc[t].fn \in SideFns /\ pc[t].step \notin {"idle", "Lock"} /\ pc'[t] = IdlePC)
             => /\ pc[t].fn = "InitHistoryDatabase"
                      => /\ historyDB'.open
                         /\ pc[t].step = "tables" => historyDB'.tables
                /\ pc[t].fn = "InitAssetContentDatabase"
                      => /\ assetContentDB'.open
                         /\ pc[t].step = "tables" => assetContentDB'.tables]_vars

----------------------------------------------------------------------------
(* Events and errors of the mutating operations.                           *)

\* The calls of eventbus.Publish(EvtSQLDeleteBlocks, ...) among the first n steps.
Published(steps, n) ==
    {i \in 1..n : steps[i].kind = "CALL" /\ steps[i].table = "Publish EvtSQLDeleteBlocks"}

\* C26: a deleteByRootID(tx, R, context) none of whose statements fails publishes the
\* blocks-deleted event exactly once, with R as its payload, as its last step: after
\* every one of its DELETE statements and right after ClearCache; a deleteByRootID
\* one of whose statements fails publishes no event.
C26_PublishedOnceAfterDeletes ==
    last.op = "deleteByRootID"
        => \E steps \in {deleteByRootID(last.cs, last.arg)} :
           \E n \in {Len(last.issued)} :
              /\ last.err = "none"
                    => /\ Cardinality(Published(steps, n)) = 1
                       /\ \A i \in Published(steps, n) :
                             /\ steps[i].a = last.arg
                             /\ i = n
                             /\ steps[i - 1].kind = "CALL" /\ steps[i - 1].table = "ClearCache"
                             /\ \A j \in 1..(i - 2) : steps[j].kind = "DELETE"
                             /\ DerivedTables \cup {"blocks", "blocks_fts"}
                                   \subseteq {steps[j].table : j \in 1..(i - 2)}
              /\ last.err # "none" => Published(steps, n) = {}

\* C26 case: deleteByRootID of a root ran all its statements, cleared the cache and
\* published the event.
C26_Witness ==
    /\ last.op = "deleteByRootID"
    /\ last.err = "none"
    /\ last.ret = "nil"
    /\ Len(last.issued) >= 9
    /\ last.issued[Len(last.issued)][2] = "Publish EvtSQLDeleteBlocks"

\* C28: when a statement of a mutating operation fails with an error other than the
\* malformed disk image, the operation has made no statement or call after that one
\* and returns the error; it returns nil only when no statement failed, and then it
\* has made every one of its statements.
C28_StopsAtFirstError ==
    [][(last'.op \in MutatingOps /\ last' # last)
          => \E steps \in {Steps(last'.op, last'.arg, caseSensitive, db)} :
                /\ last'.err \notin {"none", Malformed}
                      => /\ last'.ret = "err"
                         /\ Len(last'.issued) = last'.at
                         /\ ~last'.committed
                /\ last'.err = "none" => Len(last'.issued) = Len(steps)
                /\ last'.ret = "nil" => last'.err = "none"]_vars

\* C28 case: batchDeleteByPathPrefix failed at its fourth statement with a locked
\* store: three statements were made before it, none after it.
C28_Witness ==
    /\ last.op = "batchDeleteByPathPrefix"
    /\ last.err = Locked
    /\ last.at = 4
    /\ last.ret = "err"
    /\ Len(last.issued) = 4

\* The calls of eventbus.Publish among the statements and calls an operation made.
PublishedEvents(issued) ==
    {i \in DOMAIN issued :
        /\ issued[i][1] = "CALL"
        /\ issued[i][2] \in {"Publish EvtSQLDeleteBlocks", "Publish EvtSQLUpdateBlocksHPaths"}}

\* C34: an operation whose transaction did not commit has published no event: a
\* blocks-deleted event (deleteByRootID, batchDeleteByRootIDs) or an hpath-updated
\* event (batchUpdatePath, batchUpdateHPath) is published only for a transaction
\* that commits.
C34_EventsOnlyWhenCommitted ==
    (last.op \in MutatingOps /\ PublishedEvents(last.issued) # {}) => last.committed

----------------------------------------------------------------------------
(* Deletions by scope on a store that holds documents of two boxes: r1 is  *)
(* a top-level document of box b1, r2 a sub-document of r1 or a top-level  *)
(* document of box b2.                                                     *)

ScopeTrees ==
    [ID : {"r1"}, Box : {"b1"}, Path : {<<"r1">>}, HPath : {"h1"}]
    \cup [ID : {"r2"}, Box : {"b1"}, Path : {<<"r1", "r2">>}, HPath : {"h2"}]
    \cup [ID : {"r2"}, Box : {"b2"}, Path : {<<"r2">>}, HPath : {"h2"}]

ScopePrefixes == {<<"r1">>, <<"r1", "r2">>, <<"r2">>}

NextScope ==
    \/ Reindex(ScopeTrees, {}, {TRUE})
    \/ DeleteBlocksByIDs(Roots, Errs, BOOLEAN)
    \/ DeleteByBoxTx(Boxes, Errs, BOOLEAN)
    \/ DeleteByRootID(Roots, Errs, BOOLEAN)
    \/ BatchDeleteByPathPrefix(Boxes, ScopePrefixes, Errs, BOOLEAN)
    \/ SwitchCase
    \/ Return

SpecScope == Init /\ [][NextScope]_vars

\* The rows of a table that a deletion of the given operation and argument must
\* leave alone.
OutOfScope(op, arg, t, T) ==
    CASE op = "deleteByRootID" -> {x \in T[t] : x.root_id # arg}
      [] op = "deleteByBoxTx" -> {x \in T[t] : x.box # arg}
      [] op = "batchDeleteByPathPrefix" ->
           {x \in T[t] : x.box # arg.box \/ ~IsPrefix(arg.prefix, PathOf(t, x))}
      [] op = "deleteBlocksByIDs" -> IF t \in DerivedTables THEN T[t] ELSE {}

----------------------------------------------------------------------------
(* References to blocks of other documents. Document "A" holds the         *)
(* reference nodes, documents "RB" and "RC" hold the blocks "B" and "C"    *)
(* they refer to. A document that was saved waits in a queue; indexing it  *)
(* deletes the rows of its root with deleteByRootID, extracts its refs     *)
(* with refsFromTree and inserts them, and enters its blocks in the        *)
(* block-location index. The queue, the insertion and the maintenance of   *)
(* the index are not in this file.                                         *)

DocIDs == {"A", "RB", "RC"}

\* The reference nodes of the using document: direct and embed references.
DefNodes == {n \in RefNodes : n.kind \in {"block-ref", "embed"}}
DefWalks == UNION {[1..n -> DefNodes] : n \in 1..MaxRefs}

\* tree.ID, tree.Box and tree.Path of a document.
DocTree(d) ==
    [ID |-> d, Box |-> "box1",
     Path |-> CASE d = "A" -> <<"a">> [] d = "RB" -> <<"rb">> [] OTHER -> <<"rc">>]

\* The entries of the block-location index for the blocks of a document.
BlockTreesOf(d) ==
    CASE d = "A" -> {[ID |-> b, ParentID |-> "A", RootID |-> "A", Path |-> <<"a">>]
                        : b \in {"A", "A1", "A2"}}
      [] d = "RB" -> {[ID |-> b, ParentID |-> IF b = "B" THEN "RB" ELSE "",
                       RootID |-> "RB", Path |-> <<"rb">>] : b \in {"RB", "B"}}
      [] OTHER -> {[ID |-> b, ParentID |-> IF b = "C" THEN "RC" ELSE "",
                    RootID |-> "RC", Path |-> <<"rc">>] : b \in {"RC", "C"}}

\* The nodes of a document that ast.Walk leaves: the definers' documents hold no
\* reference.
WalkOf(d) == IF d = "A" THEN walk ELSE <<>>

\* refsFromTree: the walk over the whole tree, from its k-th node on.
RECURSIVE refsFromTree(_, _, _)
refsFromTree(w, k, acc) ==
    IF k > Len(w) THEN acc
    ELSE refsFromTree(w, k + 1,
                      refsFromTreeVisit(w[k], k, acc.refs, acc.fileAnnotationRefs))

\* A Ref as a row of table refs: RootID, Box and Path are those of the using tree.
RefRow(ref, tree) ==
    [block_id |-> ref.BlockID, root_id |-> tree.ID, box |-> tree.Box, path |-> tree.Path,
     def_block_id |-> ref.DefBlockID, def_block_parent_id |-> ref.DefBlockParentID,
     def_block_root_id |-> ref.DefBlockRootID, def_block_path |-> ref.DefBlockPath,
     type |-> ref.Type, content |-> ref.Content]

\* The refs of an extraction written to table refs.
insertRefs(T, rs, tree) ==
    [T EXCEPT !["refs"] = @ \cup {RefRow(rs[i], tree) : i \in DOMAIN rs}]

\* A document was saved and waits to be indexed.
EnqueueDocument ==
    /\ Len(queue) < MaxQueue
    /\ \E d \in DocIDs : queue' = Append(queue, d)
    /\ UNCHANGED <<db, caseSensitive, dbOpen, files, dbVer, proc, exitCode, last, refVars,
                   cacheVars, lifeVars, call, nodes, gen, out, blockTrees, tabVars>>

\* The document at the head of the queue is indexed.
IndexDocument ==
    /\ queue # <<>>
    /\ \E d \in {Head(queue)} :
       \E r \in {refsFromTree(WalkOf(d), 1, [refs |-> <<>>, fileAnnotationRefs |-> <<>>])} :
          /\ db' = insertRefs(Run(deleteByRootID(caseSensitive, d), 1, db, NoFault).tx,
                              r.refs, DocTree(d))
          /\ blockTrees' = blockTrees \cup BlockTreesOf(d)
    /\ queue' = Tail(queue)
    /\ UNCHANGED <<caseSensitive, dbOpen, files, dbVer, proc, exitCode, last, refVars,
                   cacheVars, lifeVars, call, nodes, gen, out, tabVars>>

InitDefs ==
    /\ InitStore /\ InitLifeIdle
    /\ walk \in DefWalks
    /\ pos = 0
    /\ refs = <<>>
    /\ fileAnnotationRefs = <<>>
    /\ InitTabsIdle
    /\ call = NoCall
    /\ nodes = <<>>
    /\ gen = 0
    /\ out = NoRows
    /\ queue = <<>>
    /\ blockTrees = {}

NextDefs == EnqueueDocument \/ IndexDocument

SpecDefs == InitDefs /\ [][NextDefs]_vars

\* The queue is emptied by a task that runs again and again: a document that waits is
\* indexed in the end. Nothing makes a document be saved again.
SpecDefsFair == SpecDefs /\ WF_vars(IndexDocument)

\* The stored ref carries the parent, root and path the index holds for its definer.
CarriesDefiner(r) ==
    \E bt \in blockTrees :
        /\ bt.ID = r.def_block_id
        /\ r.def_block_parent_id = bt.ParentID
        /\ r.def_block_root_id = bt.RootID
        /\ r.def_block_path = bt.Path

\* The stored ref carries no parent, root or path of its definer.
CarriesNothing(r) ==
    /\ r.def_block_parent_id = ""
    /\ r.def_block_root_id = ""
    /\ r.def_block_path = <<>>

\* When the using document is indexed, each of its refs is stored with the definer's
\* parent, root and path as the index held them before, and with all three empty when
\* the index did not hold the definer.
RefFieldsReadFromIndex ==
    [][(queue # <<>> /\ queue' = Tail(queue) /\ Head(queue) = "A")
          => \A r \in db'["refs"] :
                IF \E bt \in blockTrees : bt.ID = r.def_block_id
                THEN \E bt \in blockTrees :
                        /\ bt.ID = r.def_block_id
                        /\ r.def_block_parent_id = bt.ParentID
                        /\ r.def_block_root_id = bt.RootID
                        /\ r.def_block_path = bt.Path
                ELSE CarriesNothing(r)]_vars

\* A ref was stored with empty fields while its definer was not in the index.
RefStoredUnresolved ==
    \E r \in db["refs"] :
        /\ CarriesNothing(r)
        /\ ~\E bt \in blockTrees : bt.ID = r.def_block_id

\* A ref was stored with the fields of a definer the index held.
RefStoredResolved ==
    \E r \in db["refs"] : CarriesDefiner(r)

\* C27: a direct or embed Ref built while its defining block is absent from the
\* block-location index has empty definer parent id, root id and path, and has all
\* three from the index when the definer is present; once the defining block's own
\* document has been indexed, every stored Ref to that block in the end carries the
\* definer's actual parent id, root id and path.
C27_DefinerFieldsCorrected ==
    \A id \in {"B", "C"} :
        []((\E bt \in blockTrees : bt.ID = id)
              => <>(\A r \in db["refs"] : r.def_block_id = id => CarriesDefiner(r)))

----------------------------------------------------------------------------
(***************************************************************************)
(* The tab bar of a window (app/src/layout/Tab.ts): Tab.pin and Tab.unpin.  *)
(* A tab is known by its id; its head element is known by the same id.     *)
(***************************************************************************)

MaxTabs == 4
TabIDs == 1 .. MaxTabs

\* No element: what previousElementSibling and nextElementSibling give at the ends of
\* the bar, and what lastHeadElement holds while no pinned tab was met.
NoElement == 0

\* The index (from 1) of x in seq, 0 when it is not there.
IndexOf(seq, x) ==
    IF \E i \in DOMAIN seq : seq[i] = x
    THEN CHOOSE i \in DOMAIN seq : seq[i] = x
    ELSE 0

\* Array.prototype.splice(index, 1) on the tab: the array without it.
spliceOut(seq, x) == SelectSeq(seq, LAMBDA y : y # x)

\* Array.prototype.splice(start, 0, x): start counts from 0 and is clamped to the length.
spliceIn(seq, start, x) ==
    LET k == IF start > Len(seq) THEN Len(seq) ELSE start
    IN  SubSeq(seq, 1, k) \o <<x>> \o SubSeq(seq, k + 1, Len(seq))

previousElementSibling(bar, el) ==
    LET i == IndexOf(bar, el) IN IF i <= 1 THEN NoElement ELSE bar[i - 1]

nextElementSibling(bar, el) ==
    LET i == IndexOf(bar, el) IN IF i = 0 \/ i = Len(bar) THEN NoElement ELSE bar[i + 1]

\* The element is taken out of the bar and put before the reference child, at the end
\* when there is none; a reference child that is the element itself stands for the
\* element's next sibling.
preInsert(bar, el, child) ==
    LET ref == IF child = el THEN nextElementSibling(bar, el) ELSE child
        rest == spliceOut(bar, el)
    IN  IF ref = NoElement THEN Append(rest, el)
        ELSE spliceIn(rest, IndexOf(rest, ref) - 1, el)

\* ref.after(el): before the first following sibling of ref that is not el.
after(bar, ref, el) ==
    LET n1 == nextElementSibling(bar, ref)
        viable == IF n1 = el THEN nextElementSibling(bar, el) ELSE n1
    IN  preInsert(bar, el, viable)

\* ref.before(el): after the first preceding sibling of ref that is not el, at the
\* head of the bar when there is none.
before(bar, ref, el) ==
    LET p1 == previousElementSibling(bar, ref)
        viable == IF p1 = el THEN previousElementSibling(bar, el) ELSE p1
    IN  preInsert(bar, el,
                  IF viable = NoElement THEN bar[1] ELSE nextElementSibling(bar, viable))

\* pin without the move: the class is added and the tab stays where it is.
pinInPlace(ch, bar, pins, id) ==
    [children |-> ch, tabBar |-> bar, pinned |-> pins \cup {id}, moved |-> FALSE]

\* Tab.pin. The callback of find looks at the tabs up to this one, this one included,
\* and tests the class before it tests the id.
pin(ch, bar, pins, id) ==
    LET prev == previousElementSibling(bar, id)
    IN  IF prev = NoElement \/ prev \in pins
        THEN [children |-> ch, tabBar |-> bar, pinned |-> pins \cup {id}, moved |-> FALSE]
        ELSE LET at == IndexOf(ch, id)
                 met == {j \in 1 .. at : ch[j] \in pins}
                 pinIndex == IF met = {} THEN 0 ELSE Max(met)
                 lastHeadElement == IF met = {} THEN NoElement ELSE ch[Max(met)]
                 rest == spliceOut(ch, id)
             IN  [children |-> spliceIn(rest, pinIndex, id),
                  tabBar |-> IF lastHeadElement # NoElement
                             THEN after(bar, lastHeadElement, id)
                             ELSE before(bar, rest[1], id),
                  pinned |-> pins \cup {id},
                  moved |-> TRUE]

\* unpin that moves the head element and leaves parent.children as it was.
unpinHeadOnly(ch, bar, pins, id) ==
    LET next == nextElementSibling(bar, id)
    IN  IF next = NoElement \/ next \notin pins
        THEN [children |-> ch, tabBar |-> bar, pinned |-> pins \ {id}, moved |-> FALSE]
        ELSE LET rest == spliceOut(ch, id)
                 met == {j \in DOMAIN rest : rest[j] \in pins}
             IN  [children |-> ch,
                  tabBar |-> after(bar, rest[Max(met)], id),
                  pinned |-> pins \ {id},
                  moved |-> TRUE]

\* Tab.unpin. The loop takes this tab out when it meets it and looks at every other
\* tab; with no pinned tab among them lastHeadElement.after throws, after the tab was
\* taken out and before the class is removed.
unpin(ch, bar, pins, id) ==
    LET next == nextElementSibling(bar, id)
    IN  IF next = NoElement \/ next \notin pins
        THEN [children |-> ch, tabBar |-> bar, pinned |-> pins \ {id}, moved |-> FALSE]
        ELSE LET rest == spliceOut(ch, id)
                 met == {j \in DOMAIN rest : rest[j] \in pins}
             IN  IF met = {}
                 THEN [children |-> rest, tabBar |-> bar, pinned |-> pins, moved |-> TRUE]
                 ELSE [children |-> spliceIn(rest, Max(met), id),
                       tabBar |-> after(bar, rest[Max(met)], id),
                       pinned |-> pins \ {id},
                       moved |-> TRUE]

\* pin() is called on a tab of the window.
Pin ==
    /\ \E id \in TabIDs :
          /\ IndexOf(children, id) # 0
          /\ \E r \in {pin(children, tabBar, pinned, id)} :
                /\ children' = r.children
                /\ tabBar' = r.tabBar
                /\ pinned' = r.pinned
                /\ tabCall' = [fn |-> "pin", id |-> id, moved |-> r.moved]
    /\ UNCHANGED <<storeVars, refVars, cacheVars, lifeVars,
                   call, nodes, gen, out, queue, blockTrees>>

\* unpin() is called on a tab of the window.
Unpin ==
    /\ \E id \in TabIDs :
          /\ IndexOf(children, id) # 0
          /\ \E r \in {unpin(children, tabBar, pinned, id)} :
                /\ children' = r.children
                /\ tabBar' = r.tabBar
                /\ pinned' = r.pinned
                /\ tabCall' = [fn |-> "unpin", id |-> id, moved |-> r.moved]
    /\ UNCHANGED <<storeVars, refVars, cacheVars, lifeVars,
                   call, nodes, gen, out, queue, blockTrees>>

\* The tabs of a window in an order: every tab once.
TabOrders ==
    {s \in UNION {[1 .. n -> TabIDs] : n \in 1 .. MaxTabs} :
        \A i, j \in DOMAIN s : i # j => s[i] # s[j]}

\* A window whose pinned tabs come before its other tabs, its tab bar in the order of
\* its tabs.
InitTabs ==
    /\ InitStore /\ InitRefsIdle /\ InitLifeIdle
    /\ call = NoCall
    /\ nodes = <<>>
    /\ gen = 0
    /\ out = NoRows
    /\ queue = <<>>
    /\ blockTrees = {}
    /\ children \in TabOrders
    /\ tabBar = children
    /\ \E k \in 0 .. Len(children) : pinned = {children[i] : i \in 1 .. k}
    /\ tabCall = NoTab

NextTabs == Pin \/ Unpin

SpecTabs == InitTabs /\ [][NextTabs]_vars

\* The pinned tabs are the first tabs of seq.
PinnedPrefix(seq, pins) ==
    \A i, j \in DOMAIN seq : (i < j /\ seq[j] \in pins) => seq[i] \in pins

\* C38: from a tab bar whose pinned tabs come before the others, after any calls of
\* pin() and unpin() the pinned tabs are still the first tabs of parent.children; a
\* call of pin() on a tab that is not pinned leaves it right after the tabs that were
\* pinned, a call of unpin() on a pinned tab leaves it right after the tabs that stay
\* pinned, and the other tabs keep their order.
C38_PinnedStayPrefix ==
    [][/\ PinnedPrefix(children', pinned')
       /\ tabCall'.fn # "" =>
             spliceOut(children', tabCall'.id) = spliceOut(children, tabCall'.id)
       /\ \A id \in TabIDs :
             (tabCall' # tabCall \/ pinned' # pinned) /\ tabCall'.id = id =>
                /\ (tabCall'.fn = "pin" /\ id \notin pinned) =>
                      /\ pinned' = pinned \cup {id}
                      /\ IndexOf(children', id) = Cardinality(pinned) + 1
                /\ (tabCall'.fn = "unpin" /\ id \in pinned) =>
                      /\ pinned' = pinned \ {id}
                      /\ IndexOf(children', id) = Cardinality(pinned')  + 1
      ]_vars

\* pin() moved a tab from behind a tab that is not pinned to the end of the pinned
\* tabs, and a tab that is not pinned stands behind it.
C38_Witness ==
    /\ tabCall.fn = "pin"
    /\ tabCall.moved
    /\ IndexOf(children, tabCall.id) = Cardinality(pinned)
    /\ Len(children) >= 3
    /\ pinned # {}
    /\ \E i \in DOMAIN children : children[i] \notin pinned /\ children[i] # tabCall.id

\* C39: pin() and unpin() keep parent.children and the tab bar aligned:
\* parent.children holds every tab of the window once, in the order of the head
\* elements in the tab bar.
C39_ModelAndViewAligned ==
    [][/\ children' = tabBar'
       /\ Len(children') = Len(children)
       /\ {children'[i] : i \in DOMAIN children'} = {children[i] : i \in DOMAIN children}
       /\ \A i, j \in DOMAIN children' : i # j => children'[i] # children'[j]
      ]_vars

\* unpin() moved a pinned tab behind the tabs that stay pinned.
C39_Witness ==
    /\ tabCall.fn = "unpin"
    /\ tabCall.moved
    /\ children = tabBar
    /\ IndexOf(children, tabCall.id) = Cardinality(pinned) + 1
    /\ Cardinality(pinned) >= 2

====
